---- MODULE Spec2Model ----
(***************************************************************************)
(* A model of the media automation tools.                                  *)
(*                                                                         *)
(* SceneValidator (src/tools/SceneValidator/src/scene_validator.py):       *)
(* a validator object is constructed, validate_content runs the rule-based *)
(* stages and, when a Gemini model is configured, the AI extractor, and    *)
(* returns a ValidationResult.                                             *)
(*                                                                         *)
(* Representation.  A Python str that the code inspects character by       *)
(* character (the script content, the service's response text) is a        *)
(* sequence of text elements: Ch(c) is the character c, Doc(v) is a        *)
(* maximal run of characters that is a JSON text serialising the value v   *)
(* (it holds no backtick and is atomic for split/strip/in).  Values that   *)
(* come out of json.loads are tagged Python values (PyStr, PyInt, PyNone,  *)
(* PyList, PyDict), pairs of a type name and a payload; the fields of a    *)
(* ValidationIssue hold such values.                                       *)
(***************************************************************************)
EXTENDS Integers, Sequences, FiniteSets, TLC

VARIABLES
    pc,            \* "start" | "ready" | "returned" | "raised"
    gemini_model,  \* self.gemini_model is not None
    content,       \* validate_content's argument content
    file_type,     \* validate_content's argument file_type
    service,       \* how the external service behaves in this run
    calls,         \* the stages and external calls made, in call order
    stages,        \* the list each stage returned, by stage name
    prompt,        \* the content embedded in the prompt sent to the service
    json_str,      \* the text extracted from the response, before it is stripped
    result,        \* the ValidationResult returned
    \* the command line of scene_validator.py and the world it runs in
    args,          \* the parsed arguments: file, config, format
    files,         \* what the script path and the config path hold
    environ,       \* os.environ
    gemini_available, \* GEMINI_AVAILABLE: the client library was imported
    self_config,   \* self.config
    stdout,        \* what was printed
    error,         \* the exception raised and not yet caught, "none" if none
    exit_code,     \* the exit status of the process, "running" until it ends
    \* a direct call of ValidationResult.get_report
    format,        \* get_report's argument format
    report,        \* what get_report returned or raised
    reloaded,      \* json.loads of the returned report
    \* the command line of storyboard_gen.py and the world it runs in
    sb_args,        \* the parsed arguments: script_path, config, output, format
    sb_files,       \* what the script path and the config path hold
    sb_environ,     \* os.environ
    sb_service,     \* how self.model.generate_content behaves in this run
    sb_config,      \* self.config
    script_content, \* the text read from the script
    sb_prompt,      \* the script content embedded in the prompt
    scenes,         \* what parse_script returned
    frames,         \* the frames of the storyboard
    sb_effects,     \* what was read, created, called and written, in order
    sb_error,       \* the exception raised and not yet caught, "none" if none
    sb_exit,        \* the exit status of the process, "running" until it ends
    \* update_tools.py
    dry_run,        \* self.dry_run
    tools_data,     \* the records update_tools was given
    tool_index,     \* the number of records the loop has gone through
    stats,          \* the statistics update_tools keeps
    up_effects,     \* the operations invoked and the files written, in order
    up_error,       \* the exception raised and not yet caught, "none" if none
    \* the drawing of one scene description by _generate_image_for_scene
    scene_description, \* scene.get('description', '')
    drawn_lines     \* the lines d.text drew for it, in order

validatorVars ==
    <<pc, gemini_model, content, file_type, service, calls, stages, prompt, json_str,
      result>>

cliVars ==
    <<args, files, environ, gemini_available, self_config, stdout, error, exit_code>>

reportVars == <<format, report, reloaded>>

sbVars ==
    <<sb_args, sb_files, sb_environ, sb_service, sb_config, script_content, sb_prompt,
      scenes, frames, sb_effects, sb_error, sb_exit>>

upVars == <<dry_run, tools_data, tool_index, stats, up_effects, up_error>>

drawVars == <<scene_description, drawn_lines>>

vars == <<validatorVars, cliVars, reportVars, sbVars, upVars, drawVars>>

\* The variables a bare validate_content run leaves alone.
outsideValidator == <<cliVars, reportVars, sbVars, upVars, drawVars>>

\* The variables the command line of the validator leaves alone.
outsideCli == <<reportVars, sbVars, upVars, drawVars>>

\* The variables a direct call of get_report leaves alone.
outsideReport == <<cliVars, sbVars, upVars, drawVars>>

\* ------------------------------------------------------------------ bounds

\* Most pieces a script content is built from.
MaxContent == 3
\* Most pieces a response text is built from.
MaxResp == 4
\* Most records in a JSON list of the response.
MaxRecords == 2

\* ------------------------------------------------------------ Python values

PyStr(s) == <<"str", s>>
PyInt(n) == <<"int", n>>
PyNone == <<"NoneType", "None">>
PyList(q) == <<"list", q>>
PyDict(f) == <<"dict", f>>

\* type(x).__name__ and the payload of a tagged value.
TypeOf(x) == x[1]
ValueOf(x) == x[2]

\* A list of str values.
StrList(q) == PyList([i \in 1..Len(q) |-> PyStr(q[i])])

\* ------------------------------------------------------------------- text

Ch(c) == <<"ch", c>>
Doc(v) == <<"json", v>>

\* The backtick character (written out: a string cannot hold one).
Backtick == Ch("backtick")

\* The fence of a code block: three backticks.
Fence == <<Backtick, Backtick, Backtick>>
JsonTag == <<Ch("j"), Ch("s"), Ch("o"), Ch("n")>>
INT == <<Ch("I"), Ch("N"), Ch("T"), Ch(".")>>
EXT == <<Ch("E"), Ch("X"), Ch("T"), Ch(".")>>

\* str.isspace() of one character: what str.strip() removes.
IsSpace(e) == e \in {Ch(" "), Ch("\n"), Ch("\t"), Ch("\r")}

\* s.startswith(p)
StartsWith(s, p) == Len(s) >= Len(p) /\ SubSeq(s, 1, Len(p)) = p

\* The least element of a set of indices, 0 when it is empty.
LeastOrZero(S) == IF S = {} THEN 0 ELSE CHOOSE i \in S : \A j \in S : i <= j

\* The least index at which p occurs in s, 0 when it does not: s.find(p) + 1.
Find(s, p) ==
    LeastOrZero({i \in 1..(Len(s) - Len(p) + 1) : SubSeq(s, i, i + Len(p) - 1) = p})

\* p in s
Contains(s, p) == Find(s, p) # 0

\* s cut at the occurrence of p at index i (no cut when i is 0).
CutAt(s, p, i) ==
    IF i = 0 THEN <<s>> ELSE <<SubSeq(s, 1, i - 1), SubSeq(s, i + Len(p), Len(s))>>

\* s.split(p, 1): at most one split, at the first occurrence of p.
SplitOnce(s, p) == CutAt(s, p, Find(s, p))

\* s.split(p): every piece between occurrences of p, left to right; cut is s
\* cut at the first occurrence.
RECURSIVE SplitRest(_, _)
SplitRest(cut, p) ==
    IF Len(cut) = 1 THEN cut
    ELSE <<cut[1]>> \o SplitRest(SplitOnce(cut[2], p), p)

Split(s, p) == SplitRest(SplitOnce(s, p), p)

RECURSIVE LStrip(_)
LStrip(s) == IF s # <<>> /\ IsSpace(Head(s)) THEN LStrip(Tail(s)) ELSE s

RECURSIVE RStrip(_)
RStrip(s) ==
    IF s # <<>> /\ IsSpace(s[Len(s)]) THEN RStrip(SubSeq(s, 1, Len(s) - 1)) ELSE s

\* s.strip()
Strip(s) == RStrip(LStrip(s))

\* ------------------------------------------------------------ the data types

ValidationIssue(issue_type, description, location, severity, suggestions) ==
    [issue_type |-> issue_type, description |-> description,
     location |-> location, severity |-> severity, suggestions |-> suggestions]

ValidationResult(valid, issues, summary) ==
    [valid |-> valid, issues |-> issues, summary |-> summary]

NoResult == ValidationResult(FALSE, <<>>, "")

\* --------------------------------------------------------- rule-based stages

ScreenplayTypes == {".fdx", ".fountain"}

\* Mutant of SceneHeaders: the lines are not stripped before the prefix test.
SceneHeadersNoStrip(c) ==
    LET IsHeader(l) == StartsWith(l, INT) \/ StartsWith(l, EXT)
    IN SelectSeq(Split(c, <<Ch("\n")>>), IsHeader)

\* The lines of the content that are scene headers.
SceneHeaders(c) ==
    LET IsHeader(l) == StartsWith(Strip(l), INT) \/ StartsWith(Strip(l), EXT)
    IN SelectSeq(Split(c, <<Ch("\n")>>), IsHeader)

MissingSceneHeaders ==
    ValidationIssue(PyStr("missing_scene_headers"),
                    PyStr("No standard scene headers (INT./EXT.) found"),
                    PyStr("entire script"), PyStr("medium"),
                    StrList(<<"Add proper scene headers starting with INT. or EXT.",
                              "Format scene headings according to screenplay standards">>))

validate_scene_structure(c, ft) ==
    IF ft \in ScreenplayTypes /\ SceneHeaders(c) = <<>>
    THEN <<MissingSceneHeaders>>
    ELSE <<>>

validate_continuity(c) == <<>>

validate_character_consistency(c) == <<>>

\* ------------------------------------------------------------ AI extractor

max_length == 30000

\* Mutant of analysis_content: the content is cut one character too late.
analysis_content_late(c) ==
    IF Len(c) > max_length + 1
    THEN SubSeq(c, 1, max_length + 1)
         \o <<Ch("."), Ch("."), Ch("."), Ch("["), Ch("t"), Ch("r"), Ch("u"), Ch("n"),
              Ch("c"), Ch("a"), Ch("t"), Ch("e"), Ch("d"), Ch("]")>>
    ELSE c

\* content[:max_length] + "...[truncated]" when the content is too long.
analysis_content(c) ==
    IF Len(c) > max_length
    THEN SubSeq(c, 1, max_length)
         \o <<Ch("."), Ch("."), Ch("."), Ch("["), Ch("t"), Ch("r"), Ch("u"), Ch("n"),
              Ch("c"), Ch("a"), Ch("t"), Ch("e"), Ch("d"), Ch("]")>>
    ELSE c

\* Mutant of ExtractJsonStr: any fenced block is looked for before a json-tagged
\* one.
ExtractJsonStrAnyFenceFirst(response_text) ==
    IF /\ Contains(response_text, Fence)
       /\ Contains(SplitOnce(response_text, Fence)[2], Fence)
    THEN SplitOnce(SplitOnce(response_text, Fence)[2], Fence)[1]
    ELSE IF /\ Contains(response_text, Fence \o JsonTag)
            /\ Contains(SplitOnce(response_text, Fence \o JsonTag)[2], Fence)
         THEN SplitOnce(SplitOnce(response_text, Fence \o JsonTag)[2], Fence)[1]
         ELSE response_text

\* The text json.loads is given: between the json-tagged fence and the next fence, else
\* between the first two fences, else the whole response.
ExtractJsonStr(response_text) ==
    IF /\ Contains(response_text, Fence \o JsonTag)
       /\ Contains(SplitOnce(response_text, Fence \o JsonTag)[2], Fence)
    THEN SplitOnce(SplitOnce(response_text, Fence \o JsonTag)[2], Fence)[1]
    ELSE IF /\ Contains(response_text, Fence)
            /\ Contains(SplitOnce(response_text, Fence)[2], Fence)
         THEN SplitOnce(SplitOnce(response_text, Fence)[2], Fence)[1]
         ELSE response_text

\* json.loads(s): s is a JSON text exactly when it is one Doc, with white space
\* allowed around it; anything else raises JSONDecodeError.
LoadStripped(body) ==
    IF Len(body) = 1 /\ body[1][1] = "json"
    THEN [raised |-> FALSE, value |-> body[1][2]]
    ELSE [raised |-> TRUE, value |-> PyNone]

\* json_str = json_str.strip(); result = json.loads(json_str)
JsonLoads(s) == LoadStripped(Strip(s))

\* item.get(key, default) succeeds on a dict only.
HasGet(item) == TypeOf(item) = "dict"

Get(item, key, default) == IF key \in DOMAIN ValueOf(item) THEN ValueOf(item)[key] ELSE default

\* Mutant of IssueOfItem: a missing severity defaults to low.
IssueOfItemLowDefault(item) ==
    ValidationIssue(Get(item, "issue_type", PyStr("unknown")),
                    Get(item, "description", PyStr("No description provided")),
                    Get(item, "location", PyStr("unknown")),
                    Get(item, "severity", PyStr("low")),
                    Get(item, "suggestions", PyList(<<>>)))

\* ValidationIssue(issue_type=item.get(...), ...) for one record.
IssueOfItem(item) ==
    ValidationIssue(Get(item, "issue_type", PyStr("unknown")),
                    Get(item, "description", PyStr("No description provided")),
                    Get(item, "location", PyStr("unknown")),
                    Get(item, "severity", PyStr("medium")),
                    Get(item, "suggestions", PyList(<<>>)))

\* for item in items: issues.append(ValidationIssue(...)).  The list issues is
\* appended to in place, so what was appended before a failing record stays.
RECURSIVE ConvertItems(_, _)
ConvertItems(items, issues) ==
    IF items = <<>> THEN [raised |-> FALSE, issues |-> issues]
    ELSE IF ~HasGet(Head(items)) THEN [raised |-> TRUE, issues |-> issues]
    ELSE ConvertItems(Tail(items), Append(issues, IssueOfItem(Head(items))))

\* iter(v) of a parsed JSON value: a list gives its items, a number or null
\* raises TypeError.
PyIter(v) ==
    CASE TypeOf(v) = "list" -> [raised |-> FALSE, items |-> ValueOf(v)]
      [] TypeOf(v) \in {"int", "NoneType"} -> [raised |-> TRUE, items |-> <<>>]

\* The loop over an iteration it that may have failed to start.
ConvertIterated(it, issues) ==
    IF it.raised THEN [raised |-> TRUE, issues |-> issues]
    ELSE ConvertItems(it.items, issues)

\* The branches on the parsed result: a list, or a dict with an "issues" key.
ConvertResult(parsed, issues) ==
    IF TypeOf(parsed) = "list" THEN ConvertIterated(PyIter(parsed), issues)
    ELSE IF TypeOf(parsed) = "dict" /\ "issues" \in DOMAIN ValueOf(parsed)
         THEN ConvertIterated(PyIter(ValueOf(parsed)["issues"]), issues)
         ELSE [raised |-> FALSE, issues |-> issues]

GeminiParsingError ==
    ValidationIssue(PyStr("gemini_parsing_error"),
                    PyStr("Error parsing Gemini analysis response"),
                    PyStr("analysis system"), PyStr("low"),
                    StrList(<<"Check Gemini API service status",
                              "Try analyzing a shorter script">>))

GeminiAnalysisError ==
    ValidationIssue(PyStr("gemini_analysis_error"),
                    PyStr("Error during Gemini analysis"),
                    PyStr("analysis system"), PyStr("low"),
                    StrList(<<"Check Gemini API configuration",
                              "Verify API key is valid">>))

\* The conversion of what json.loads gave, when it gave something.
ConvertLoaded(loaded, issues) ==
    IF loaded.raised THEN [raised |-> TRUE, issues |-> issues]
    ELSE ConvertResult(loaded.value, issues)

\* The inner try block: read response.text, extract, parse, convert.
ParseResponse(svc, issues) ==
    IF svc.kind = "text_raises" THEN [raised |-> TRUE, issues |-> issues]
    ELSE ConvertLoaded(JsonLoads(ExtractJsonStr(svc.text)), issues)

\* The inner except: one gemini_parsing_error issue is appended to what the
\* try block r left in issues.
CatchParsing(r) ==
    IF r.raised THEN Append(r.issues, GeminiParsingError) ELSE r.issues

\* The inner try with its except.
ParseResponseCaught(svc, issues) == CatchParsing(ParseResponse(svc, issues))

\* The outer try block: the generation call, then the inner try.  Besides the
\* issues: the text extracted for json.loads and the external calls made.
GenerateAndParse(svc, issues) ==
    IF svc.kind = "generate_raises"
    THEN [raised |-> TRUE, issues |-> issues, json_str |-> <<>>,
          calls |-> <<"generate_content">>]
    ELSE [raised |-> FALSE, issues |-> ParseResponseCaught(svc, issues),
          json_str |-> IF svc.kind = "text" THEN ExtractJsonStr(svc.text) ELSE <<>>,
          calls |-> <<"generate_content">>
                    \o (IF svc.kind = "text" THEN <<"json.loads">> ELSE <<>>)]

\* Mutant of CatchAnalysis: no outer except, so a failing generation call
\* leaves the method.
NoCatchAnalysis(r, c) ==
    [raised |-> r.raised, issues |-> r.issues,
     prompt |-> analysis_content(c), json_str |-> r.json_str, calls |-> r.calls]

\* The outer except: one gemini_analysis_error issue is appended to what the
\* try block r left in issues; nothing leaves the method.
CatchAnalysis(r, c) ==
    [raised |-> FALSE,
     issues |-> IF r.raised THEN Append(r.issues, GeminiAnalysisError) ELSE r.issues,
     prompt |-> analysis_content(c), json_str |-> r.json_str, calls |-> r.calls]

\* _analyze_with_gemini: the issues returned, whether an exception left the
\* method, the prompt's embedded content, the text extracted for json.loads and
\* the external calls made.
analyze_with_gemini(model, c, svc) ==
    IF ~model
    THEN [raised |-> FALSE, issues |-> <<>>, prompt |-> <<>>, json_str |-> <<>>,
          calls |-> <<>>]
    ELSE CatchAnalysis(GenerateAndParse(svc, <<>>), c)

\* ------------------------------------------------------------ validate_content

EmptyContent ==
    ValidationIssue(PyStr("empty_content"), PyStr("The script content is empty"),
                    PyStr("entire file"), PyStr("high"),
                    StrList(<<"Add content to the script file">>))

\* len([i for i in issues if i.severity == sev])
SeverityCount(issues, sev) ==
    LET Is(i) == i.severity = PyStr(sev)
    IN Len(SelectSeq(issues, Is))

\* Mutant of Validity: medium issues block too.
ValidityMediumBlocks(issues) ==
    SeverityCount(issues, "high") + SeverityCount(issues, "medium") = 0

\* valid = len([i for i in issues if i.severity == 'high']) == 0
Validity(issues) == SeverityCount(issues, "high") = 0

\* Mutant of Summary: the medium and low counts change places.
SummarySwapped(issues) ==
    IF issues = <<>> THEN "No issues found in the script."
    ELSE "Found " \o ToString(Len(issues)) \o " issues: "
         \o ToString(SeverityCount(issues, "high")) \o " high, "
         \o ToString(SeverityCount(issues, "low")) \o " medium, "
         \o ToString(SeverityCount(issues, "medium")) \o " low severity."

\* The summary of a run that reached the aggregation.
Summary(issues) ==
    IF issues = <<>> THEN "No issues found in the script."
    ELSE "Found " \o ToString(Len(issues)) \o " issues: "
         \o ToString(SeverityCount(issues, "high")) \o " high, "
         \o ToString(SeverityCount(issues, "medium")) \o " medium, "
         \o ToString(SeverityCount(issues, "low")) \o " low severity."

\* Mutant of IsEmpty: white space counts as empty.
IsEmptyStripped(c) == Strip(c) = <<>>

\* not content
IsEmpty(c) == c = <<>>

\* The result of the empty-content branch.
EmptyResult ==
    ValidationResult(FALSE, <<EmptyContent>>, "Validation failed: Empty script content")

NoStages == [scene |-> <<>>, continuity |-> <<>>, character |-> <<>>, gemini |-> <<>>]

\* Mutant of Aggregate: the AI-derived issues come first.
AggregateAIFirst(st) == st.gemini \o st.scene \o st.continuity \o st.character

\* The stage lists extended in this order onto issues.
Aggregate(st) == st.scene \o st.continuity \o st.character \o st.gemini

\* The end of validate_content: the result from the joined issues, with what
\* was called on the way; ai is what _analyze_with_gemini gave when called.
BuildResult(model, ai, st, issues) ==
    [raised |-> model /\ ai.raised,
     result |-> IF model /\ ai.raised THEN NoResult
                ELSE ValidationResult(Validity(issues), issues, Summary(issues)),
     stages |-> st,
     calls |-> <<"_validate_scene_structure", "_validate_continuity",
                 "_validate_character_consistency">>
               \o (IF model THEN <<"_analyze_with_gemini">> \o ai.calls ELSE <<>>),
     prompt |-> IF model THEN ai.prompt ELSE <<>>,
     json_str |-> IF model THEN ai.json_str ELSE <<>>]

\* The stage lists are joined.
JoinStages(model, ai, st) == BuildResult(model, ai, st, Aggregate(st))

\* The four stages in order; the extractor is called only with a model.
RunStages(model, c, ft, ai) ==
    JoinStages(model, ai,
               [scene |-> validate_scene_structure(c, ft),
                continuity |-> validate_continuity(c),
                character |-> validate_character_consistency(c),
                gemini |-> IF model THEN ai.issues ELSE <<>>])

\* validate_content(content, file_type) on a validator whose gemini_model is
\* model, with the service behaving as svc: what is returned or raised, and
\* what was called on the way.
validate_content(model, c, ft, svc) ==
    IF IsEmpty(c)
    THEN [raised |-> FALSE, result |-> EmptyResult, stages |-> NoStages,
          calls |-> <<>>, prompt |-> <<>>, json_str |-> <<>>]
    ELSE RunStages(model, c, ft, analyze_with_gemini(model, c, svc))

\* SceneValidator.__init__: whether self.gemini_model is set.
InitGeminiModel(GEMINI_AVAILABLE, config) ==
    GEMINI_AVAILABLE /\ "gemini_api_key" \in config

\* ------------------------------------------------------------------ get_report

PyBool(b) == <<"bool", b>>

\* The lexical form of the scalar v in a JSON text: a quoted and escaped string,
\* a number, true, false or null.  The structure of a JSON text (brackets,
\* commas, colons, white space) is spelt out with Ch.
Lit(v) == <<"lit", v>>

Letters ==
    <<<<"A", "a">>, <<"B", "b">>, <<"C", "c">>, <<"D", "d">>, <<"E", "e">>, <<"F", "f">>,
      <<"G", "g">>, <<"H", "h">>, <<"I", "i">>, <<"J", "j">>, <<"K", "k">>, <<"L", "l">>,
      <<"M", "m">>, <<"N", "n">>, <<"O", "o">>, <<"P", "p">>, <<"Q", "q">>, <<"R", "r">>,
      <<"S", "s">>, <<"T", "t">>, <<"U", "u">>, <<"V", "v">>, <<"W", "w">>, <<"X", "x">>,
      <<"Y", "y">>, <<"Z", "z">>>>

\* The index of the upper-case letter c in Letters, 0 for any other character.
UpperIndex(c) == LeastOrZero({i \in 1..Len(Letters) : Letters[i][1] = c})

LowerAt(e, i) == IF i = 0 THEN e ELSE Ch(Letters[i][2])

\* s.lower()
Lower(s) == [i \in 1..Len(s) |-> LowerAt(s[i], UpperIndex(s[i][2]))]

\* The characters of s as one string.
RECURSIVE StrOf(_)
StrOf(s) == IF s = <<>> THEN "" ELSE Head(s)[2] \o StrOf(Tail(s))

\* The line break json.dumps puts before an element at depth level: a newline
\* and indent * level blanks.
indent == 2

NewLine(level) == <<Ch("\n")>> \o [i \in 1..(indent * level) |-> Ch(" ")]

\* json.dumps(v, indent=2) of a scalar or a list, at depth level.
RECURSIVE DumpValue(_, _)
RECURSIVE DumpItems(_, _)
DumpItems(q, level) ==
    IF Len(q) = 1 THEN DumpValue(q[1], level)
    ELSE DumpValue(Head(q), level) \o <<Ch(",")>> \o NewLine(level)
         \o DumpItems(Tail(q), level)

DumpValue(v, level) ==
    CASE TypeOf(v) \in {"str", "int", "NoneType", "bool"} -> <<Lit(v)>>
      [] TypeOf(v) = "list" /\ ValueOf(v) = <<>> -> <<Ch("["), Ch("]")>>
      [] TypeOf(v) = "list" /\ ValueOf(v) # <<>> ->
            <<Ch("[")>> \o NewLine(level + 1) \o DumpItems(ValueOf(v), level + 1)
            \o NewLine(level) \o <<Ch("]")>>

\* "key": value
DumpMember(key, text) == <<Lit(PyStr(key)), Ch(":"), Ch(" ")>> \o text

\* Mutant of DumpIssue: the severity is written capitalised, as the HTML form
\* shows it.
DumpIssueCapitalised(issue, level) ==
    <<Ch("{")>> \o NewLine(level + 1)
    \o DumpMember("issue_type", DumpValue(issue.issue_type, level + 1))
    \o <<Ch(",")>> \o NewLine(level + 1)
    \o DumpMember("description", DumpValue(issue.description, level + 1))
    \o <<Ch(",")>> \o NewLine(level + 1)
    \o DumpMember("location", DumpValue(issue.location, level + 1))
    \o <<Ch(",")>> \o NewLine(level + 1)
    \o DumpMember("severity",
                  IF issue.severity = PyStr("high") THEN <<Lit(PyStr("High"))>>
                  ELSE DumpValue(issue.severity, level + 1))
    \o <<Ch(",")>> \o NewLine(level + 1)
    \o DumpMember("suggestions", DumpValue(issue.suggestions, level + 1))
    \o NewLine(level) \o <<Ch("}")>>

\* json.dumps of vars(issue): the five fields in declaration order.
DumpIssue(issue, level) ==
    <<Ch("{")>> \o NewLine(level + 1)
    \o DumpMember("issue_type", DumpValue(issue.issue_type, level + 1))
    \o <<Ch(",")>> \o NewLine(level + 1)
    \o DumpMember("description", DumpValue(issue.description, level + 1))
    \o <<Ch(",")>> \o NewLine(level + 1)
    \o DumpMember("location", DumpValue(issue.location, level + 1))
    \o <<Ch(",")>> \o NewLine(level + 1)
    \o DumpMember("severity", DumpValue(issue.severity, level + 1))
    \o <<Ch(",")>> \o NewLine(level + 1)
    \o DumpMember("suggestions", DumpValue(issue.suggestions, level + 1))
    \o NewLine(level) \o <<Ch("}")>>

RECURSIVE DumpIssues(_, _)
DumpIssues(issues, level) ==
    IF Len(issues) = 1 THEN DumpIssue(issues[1], level)
    ELSE DumpIssue(Head(issues), level) \o <<Ch(",")>> \o NewLine(level)
         \o DumpIssues(Tail(issues), level)

\* [vars(issue) for issue in self.issues], serialised at depth level.
DumpIssueList(issues, level) ==
    IF issues = <<>> THEN <<Ch("["), Ch("]")>>
    ELSE <<Ch("[")>> \o NewLine(level + 1) \o DumpIssues(issues, level + 1)
         \o NewLine(level) \o <<Ch("]")>>

\* json.dumps({'valid': ..., 'issues': [...], 'summary': ...}, indent=2)
JsonReport(r) ==
    <<Ch("{")>> \o NewLine(1)
    \o DumpMember("valid", <<Lit(PyBool(r.valid))>>)
    \o <<Ch(",")>> \o NewLine(1)
    \o DumpMember("issues", DumpIssueList(r.issues, 1))
    \o <<Ch(",")>> \o NewLine(1)
    \o DumpMember("summary", <<Lit(PyStr(r.summary))>>)
    \o NewLine(0) \o <<Ch("}")>>

\* str(v) of a str, a number or None, as an f-string renders it.
Str(v) ==
    CASE TypeOf(v) = "str" -> ValueOf(v)
      [] TypeOf(v) = "int" -> ToString(ValueOf(v))
      [] TypeOf(v) = "NoneType" -> "None"

\* s.capitalize() of the severities that occur.
Capitalize(s) ==
    CASE s = "high" -> "High"
      [] s = "medium" -> "Medium"
      [] s = "low" -> "Low"
      [] s = "critical" -> "Critical"

\* ''.join([f'<li>{s}</li>' for s in suggestions])
RECURSIVE ListItems(_)
ListItems(q) ==
    IF q = <<>> THEN "" ELSE "<li>" \o Str(Head(q)) \o "</li>" \o ListItems(Tail(q))

\* The exception the row of an issue raises, "none" when it renders:
\* severity.capitalize() needs a str, the loop over suggestions an iterable.
RowRaises(issue) ==
    IF TypeOf(issue.severity) # "str" THEN "AttributeError"
    ELSE IF TypeOf(issue.suggestions) # "list" THEN "TypeError"
    ELSE "none"

\* The fragments appended to html for one issue.
Row(issue) ==
    <<"<tr>",
      "<td>" \o Str(issue.issue_type) \o "</td>",
      "<td>" \o Str(issue.description) \o "</td>",
      "<td>" \o Str(issue.location) \o "</td>",
      "<td class=\"" \o ValueOf(issue.severity) \o "\">"
          \o Capitalize(ValueOf(issue.severity)) \o "</td>",
      "<td><ul>" \o ListItems(ValueOf(issue.suggestions)) \o "</ul></td>",
      "</tr>">>

\* The loop over the issues: the fragments so far, and the exception that ended
\* the loop, if any.
RECURSIVE Rows(_, _)
Rows(issues, html) ==
    IF issues = <<>> THEN [raised |-> "none", text |-> html]
    ELSE IF RowRaises(Head(issues)) # "none"
         THEN [raised |-> RowRaises(Head(issues)), text |-> <<>>]
         ELSE Rows(Tail(issues), html \o Row(Head(issues)))

\* The table is closed after the loop, when the loop ended normally.
CloseTable(r) ==
    IF r.raised # "none" THEN r
    ELSE [raised |-> "none", text |-> r.text \o <<"</table>", "</body></html>">>]

\* The status heading of the HTML form.
StatusLine(valid) ==
    IF valid THEN "<h2 class=\"valid\">Status: Valid</h2>"
    ELSE "<h2 class=\"invalid\">Status: Invalid</h2>"

\* The fragments up to the issues.
HtmlHead(r) ==
    <<"<html><head><title>Scene Validation Report</title>",
      "<style>body{font-family:Arial;max-width:800px;margin:0 auto;padding:20px}",
      ".valid{color:green}.invalid{color:red}",
      ".high{color:red}.medium{color:orange}.low{color:blue}",
      "table{width:100%;border-collapse:collapse}",
      "td,th{border:1px solid #ddd;padding:8px}</style></head><body>",
      "<h1>Scene Validation Report</h1>",
      StatusLine(r.valid),
      "<h3>Summary</h3><p>" \o r.summary \o "</p>">>

\* The HTML form: the fragments appended to html, in order.
HtmlReport(r) ==
    IF r.issues = <<>>
    THEN [raised |-> "none",
          text |-> HtmlHead(r) \o <<"<p>No issues found!</p>", "</body></html>">>]
    ELSE CloseTable(Rows(r.issues,
                         HtmlHead(r)
                         \o <<"<h3>Issues</h3><table>",
                              "<tr><th>Type</th><th>Description</th><th>Location</th>"
                              \o "<th>Severity</th><th>Suggestions</th></tr>">>))

\* The branch on the lower-cased format.
ReportAs(r, lowered) ==
    IF lowered = "json" THEN [raised |-> "none", text |-> JsonReport(r)]
    ELSE IF lowered = "html" THEN HtmlReport(r)
    ELSE [raised |-> "ValueError", text |-> <<>>]

\* ValidationResult.get_report(format): the text returned, or the exception
\* raised.
get_report(r, fmt) == ReportAs(r, StrOf(Lower(fmt)))

\* ---------------------------------------------------- json.loads of a report

ParseFail == [ok |-> FALSE, value |-> PyNone, rest |-> <<>>]
ParseOk(v, rest) == [ok |-> TRUE, value |-> v, rest |-> rest]

\* The dict f with key set to v.
Put(f, key, v) == [k \in DOMAIN f \cup {key} |-> IF k = key THEN v ELSE f[k]]

RECURSIVE ParseValue(_)
RECURSIVE ParseElements(_, _)
RECURSIVE ParseMembers(_, _)

\* After an element of an array: a comma and more elements, or the closing
\* bracket.
ElementEnd(s, acc) ==
    IF s = <<>> THEN ParseFail
    ELSE IF Head(s) = Ch(",") THEN ParseElements(Tail(s), acc)
    ELSE IF Head(s) = Ch("]") THEN ParseOk(PyList(acc), Tail(s))
    ELSE ParseFail

AfterElement(r, acc) ==
    IF ~r.ok THEN ParseFail ELSE ElementEnd(LStrip(r.rest), Append(acc, r.value))

ParseElements(s, acc) == AfterElement(ParseValue(s), acc)

\* After the opening bracket.
ParseArray(s) ==
    IF s # <<>> /\ Head(s) = Ch("]") THEN ParseOk(PyList(<<>>), Tail(s))
    ELSE ParseElements(s, <<>>)

\* After a member of an object: a comma and more members, or the closing brace.
MemberEnd(s, acc) ==
    IF s = <<>> THEN ParseFail
    ELSE IF Head(s) = Ch(",") THEN ParseMembers(Tail(s), acc)
    ELSE IF Head(s) = Ch("}") THEN ParseOk(PyDict(acc), Tail(s))
    ELSE ParseFail

AfterMember(r, key, acc) ==
    IF ~r.ok THEN ParseFail ELSE MemberEnd(LStrip(r.rest), Put(acc, key, r.value))

MemberColon(s, key, acc) ==
    IF s # <<>> /\ Head(s) = Ch(":") THEN AfterMember(ParseValue(Tail(s)), key, acc)
    ELSE ParseFail

MemberKey(s, acc) ==
    IF s # <<>> /\ Head(s)[1] = "lit" /\ TypeOf(Head(s)[2]) = "str"
    THEN MemberColon(LStrip(Tail(s)), ValueOf(Head(s)[2]), acc)
    ELSE ParseFail

ParseMembers(s, acc) == MemberKey(LStrip(s), acc)

\* After the opening brace.
ParseObject(s) ==
    IF s # <<>> /\ Head(s) = Ch("}") THEN ParseOk(PyDict(<<>>), Tail(s))
    ELSE ParseMembers(s, <<>>)

\* A value at the head of s, which starts with no white space.
ParseAt(s) ==
    IF s = <<>> THEN ParseFail
    ELSE IF Head(s)[1] = "lit" THEN ParseOk(Head(s)[2], Tail(s))
    ELSE IF Head(s) = Ch("[") THEN ParseArray(LStrip(Tail(s)))
    ELSE IF Head(s) = Ch("{") THEN ParseObject(LStrip(Tail(s)))
    ELSE ParseFail

ParseValue(s) == ParseAt(LStrip(s))

\* Nothing but white space may follow the value.
WholeText(r) ==
    IF r.ok /\ LStrip(r.rest) = <<>> THEN [raised |-> FALSE, value |-> r.value]
    ELSE [raised |-> TRUE, value |-> PyNone]

\* json.loads(text) of a text spelt out character by character.
json_loads(text) == WholeText(ParseValue(text))

\* ---------------------------------------------------------------- validate_file

\* The greatest index at which the character e occurs in s, 0 when it does not:
\* s.rfind(e) + 1.
RFind(s, e) ==
    IF \E i \in 1..Len(s) : s[i] = e
    THEN CHOOSE i \in 1..Len(s) : s[i] = e /\ \A j \in (i + 1)..Len(s) : s[j] # e
    ELSE 0

\* The extension of p given the places of its last separator and last dot: from
\* the last dot on, when that dot comes after the separator and a character
\* other than a dot stands between them.
ExtFrom(p, sepIndex, dotIndex) ==
    IF dotIndex > sepIndex /\ \E k \in (sepIndex + 1)..(dotIndex - 1) : p[k] # Ch(".")
    THEN SubSeq(p, dotIndex, Len(p))
    ELSE <<>>

\* os.path.splitext(p)[1]
splitext_ext(p) == ExtFrom(p, RFind(p, Ch("/")), RFind(p, Ch(".")))

\* What validate_file gives when the file exists: validate_content's outcome r
\* on the text read, with the file type it was given.
Validated(r, ft, text) ==
    [error |-> IF r.raised THEN "Exception" ELSE "none", result |-> r.result,
     stages |-> r.stages, calls |-> <<"open">> \o r.calls, prompt |-> r.prompt,
     json_str |-> r.json_str, file_type |-> ft, content |-> text]

NotFound ==
    [error |-> "FileNotFoundError", result |-> NoResult, stages |-> NoStages,
     calls |-> <<>>, prompt |-> <<>>, json_str |-> <<>>, file_type |-> ".txt",
     content |-> <<>>]

\* The file exists: it is read and validated with file type ft.
ValidateText(model, text, ft, svc) ==
    Validated(validate_content(model, text, ft, svc), ft, text)

\* validate_file(file_path), where entry is what the path holds.
validate_file(model, file_path, entry, svc) ==
    IF ~entry.exists THEN NotFound
    ELSE ValidateText(model, entry.text, StrOf(Lower(splitext_ext(file_path))), svc)

\* self.config after __init__: the parsed config file when a path was given
\* and exists.
LoadConfig(config_path, entry) ==
    IF config_path # "none" /\ entry.exists THEN entry.json ELSE <<>>

\* ------------------------------------------------------ the storyboard prompt

\* The length script_content is cut to for the prompt of parse_script.
script_limit == 50000

\* script_content[:50000]
embedded_script(c) == SubSeq(c, 1, IF Len(c) < script_limit THEN Len(c) ELSE script_limit)

\* ------------------------------------------------------- StoryboardGenerator

\* bool(v) of a str, None, a bool or a list.
Truthy(v) ==
    CASE TypeOf(v) = "str" -> ValueOf(v) # ""
      [] TypeOf(v) = "NoneType" -> FALSE
      [] TypeOf(v) = "bool" -> ValueOf(v)
      [] TypeOf(v) = "list" -> ValueOf(v) # <<>>

\* d.get(key, default) of a dict d.
DictGet(d, key, default) == IF key \in DOMAIN d THEN d[key] ELSE default

\* self.config.get('gemini_api_key', os.environ.get('GEMINI_API_KEY'))
api_key(cfg, env) == DictGet(cfg, "gemini_api_key", DictGet(env, "GEMINI_API_KEY", PyNone))

\* if not api_key: raise ValueError(...)
KeyError(cfg, env) == IF Truthy(api_key(cfg, env)) THEN "none" ELSE "ValueError"

\* StoryboardGenerator.__init__ with the config cfg it loaded.
sb_init(cfg, env) == [error |-> KeyError(cfg, env), config |-> cfg]

\* The placeholder parse_script falls back to.
DefaultScenes ==
    <<PyDict([k \in {"scene_number", "description", "characters"} |->
                CASE k = "scene_number" -> PyStr("1")
                  [] k = "description" -> PyStr("Default scene")
                  [] k = "characters" -> PyList(<<>>)])>>

\* scenes = json.loads(json_text), or the placeholder when it raises.
LoadedScenes(loaded) == IF loaded.raised THEN DefaultScenes ELSE ValueOf(loaded.value)

\* The try block of parse_script on the response text, given the places of the
\* first opening and the last closing bracket (0 when there is none).
ScenesBetween(text, start, end) ==
    IF start >= 1 /\ end > start - 1
    THEN LoadedScenes(json_loads(SubSeq(text, start, end)))
    ELSE DefaultScenes

\* The try block with its except: reading response.text may raise too.
ScenesOfResponse(svc) ==
    IF svc.kind = "text_raises" THEN DefaultScenes
    ELSE ScenesBetween(svc.text, Find(svc.text, <<Ch("[")>>), RFind(svc.text, Ch("]")))

\* parse_script(script_path): the scenes returned or the exception raised, with
\* the text read, the content embedded in the prompt and what was done.
parse_script(entry, svc) ==
    IF ~entry.exists
    THEN [error |-> "FileNotFoundError", scenes |-> <<>>, content |-> <<>>, prompt |-> <<>>,
          effects |-> <<>>]
    ELSE IF svc.kind = "generate_raises"
    THEN [error |-> "Exception", scenes |-> <<>>, content |-> entry.text,
          prompt |-> embedded_script(entry.text),
          effects |-> <<<<"read", "script">>, <<"call", "generate_content">>>>]
    ELSE [error |-> "none", scenes |-> ScenesOfResponse(svc), content |-> entry.text,
          prompt |-> embedded_script(entry.text),
          effects |-> <<<<"read", "script">>, <<"call", "generate_content">>>>]

\* The names bound at module level by the import statements of storyboard_gen.py.
module_names ==
    {"os", "json", "logging", "List", "Dict", "Any", "Optional", "Tuple", "dataclass",
     "Path", "requests", "genai", "Image", "ImageDraw", "ImageFont", "letter", "canvas"}

\* Evaluating the global name: NameError unless the module binds it.
NameLookup(name) == IF name \in module_names THEN "none" ELSE "NameError"

\* s.rstrip('/')
RECURSIVE RStripSlash(_)
RStripSlash(s) ==
    IF s # <<>> /\ s[Len(s)] = Ch("/") THEN RStripSlash(SubSeq(s, 1, Len(s) - 1)) ELSE s

\* The head of os.path.split: what precedes the last separator, without its
\* trailing separators unless it is made of separators only.
DirHead(head) == IF RStripSlash(head) = <<>> THEN head ELSE RStripSlash(head)

\* os.path.dirname(p)
dirname(p) == DirHead(SubSeq(p, 1, RFind(p, Ch("/"))))

\* os.path.basename(p)
basename(p) == SubSeq(p, RFind(p, Ch("/")) + 1, Len(p))

\* os.path.join(a, b) of a relative b.
Join(a, b) ==
    IF a = <<>> THEN b
    ELSE IF a[Len(a)] = Ch("/") THEN a \o b
    ELSE a \o <<Ch("/")>> \o b

\* The directory generate_from_script works in.
OutputDir(script_path, output) ==
    IF output # <<>> THEN output ELSE Join(dirname(script_path), <<Ch("storyboard")>>)

\* _generate_image_for_scene raises inside its try block: description.split()
\* of a description that is no str, or the slice of characters that are no list.
ImageRaises(f) ==
    \/ TypeOf(DictGet(f, "description", PyStr(""))) # "str"
    \/ TypeOf(DictGet(f, "characters", PyList(<<>>))) \notin {"list", "str"}

\* os.path.join(output_dir, f"scene_{scene_num}.png")
ImagePath(dir, scene_num) == StrOf(Join(dir, <<Ch("scene_" \o Str(scene_num) \o ".png")>>))

\* _generate_image_for_scene(scene, output_dir) of a dict scene: the path of the
\* image saved, or None when drawing or saving failed.
generate_image_for_scene(f, dir, can_save) ==
    IF ImageRaises(f) \/ ~can_save THEN PyNone
    ELSE PyStr(ImagePath(dir, DictGet(f, "scene_number", PyStr("0"))))

\* What the call left on disk.
ImageEffects(image) == IF image = PyNone THEN <<>> ELSE <<<<"write", ValueOf(image)>>>>

\* scene.get('camera_suggestions', {})
CameraSuggestions(f) == DictGet(f, "camera_suggestions", PyDict(<<>>))

\* StoryboardFrame.__post_init__
PostInit(characters) == IF characters = PyNone THEN PyList(<<>>) ELSE characters

\* StoryboardFrame(...) as generate_from_script builds it from the scene.
StoryboardFrame(f, image) ==
    [scene_number |-> DictGet(f, "scene_number", PyStr("")),
     description |-> DictGet(f, "description", PyStr("")),
     image_path |-> image,
     camera_angle |-> DictGet(ValueOf(CameraSuggestions(f)), "angle", PyStr("Medium Shot")),
     camera_movement |-> DictGet(ValueOf(CameraSuggestions(f)), "movement", PyStr("Static")),
     characters |-> PostInit(DictGet(f, "characters", PyList(<<>>))),
     notes |-> DictGet(f, "key_visual_elements", PyStr(""))]

\* One pass of the loop over a dict scene, its image already generated: the
\* frame is appended unless camera_suggestions is no dict.
AddFrame(f, image, acc) ==
    IF TypeOf(CameraSuggestions(f)) # "dict"
    THEN [error |-> "AttributeError", frames |-> acc.frames,
          effects |-> acc.effects \o ImageEffects(image)]
    ELSE [error |-> "none", frames |-> Append(acc.frames, StoryboardFrame(f, image)),
          effects |-> acc.effects \o ImageEffects(image)]

\* The image of one pass of the loop.
SceneImage(f, generate_images, dir, can_save) ==
    IF generate_images THEN generate_image_for_scene(f, dir, can_save) ELSE PyNone

\* The loop of generate_from_script over the scenes q; a scene that is no dict
\* has no get.
RECURSIVE FramesFrom(_, _, _, _, _)
FramesFrom(q, generate_images, dir, can_save, acc) ==
    IF q = <<>> \/ acc.error # "none" THEN acc
    ELSE IF TypeOf(Head(q)) # "dict" THEN [acc EXCEPT !.error = "AttributeError"]
    ELSE FramesFrom(Tail(q), generate_images, dir, can_save,
                    AddFrame(ValueOf(Head(q)),
                             SceneImage(ValueOf(Head(q)), generate_images, dir, can_save),
                             acc))

\* generate_from_script after parse_script returned or raised.
FramesOfParsed(parsed_script, built, script_path, dir) ==
    [error |-> IF parsed_script.error # "none" THEN parsed_script.error ELSE built.error,
     scenes |-> parsed_script.scenes,
     content |-> parsed_script.content,
     prompt |-> parsed_script.prompt,
     frames |-> built.frames,
     title |-> StrOf(basename(script_path)),
     output_dir |-> dir,
     effects |-> <<<<"makedirs", StrOf(dir)>>>> \o parsed_script.effects \o built.effects]

BuildFrames(parsed_script, cfg, dir, can_save) ==
    IF parsed_script.error # "none" THEN [error |-> "none", frames |-> <<>>, effects |-> <<>>]
    ELSE FramesFrom(parsed_script.scenes, Truthy(DictGet(cfg, "generate_images", PyBool(TRUE))),
                    dir, can_save, [error |-> "none", frames |-> <<>>, effects |-> <<>>])

GenerateIn(parsed_script, cfg, script_path, dir, can_save) ==
    FramesOfParsed(parsed_script, BuildFrames(parsed_script, cfg, dir, can_save),
                   script_path, dir)

\* generate_from_script(script_path, output_dir)
generate_from_script(cfg, script_path, output, world, svc) ==
    GenerateIn(parse_script(world.script, svc), cfg, script_path,
               OutputDir(script_path, output), world.writable)

\* ', '.join(frame.characters) needs strings.
Joinable(characters) ==
    \/ TypeOf(characters) = "str"
    \/ /\ TypeOf(characters) = "list"
       /\ \A i \in 1..Len(ValueOf(characters)) : TypeOf(ValueOf(characters)[i]) = "str"

\* export_pdf raises on a frame: frame.description[:200] or the join.
PdfRaises(q) ==
    \E i \in 1..Len(q) :
        \/ TypeOf(q[i].description) \notin {"str", "list"}
        \/ ~Joinable(q[i].characters)

\* The number of frames export_pdf puts on a page.
frames_per_page == 3

\* Mutant of PageBreak: the page is turned after every third frame drawn, the
\* first page not excepted.
PageBreakAtMultiple(current_frame) == current_frame % frames_per_page = 0

\* if current_frame > 0 and current_frame % frames_per_page == 0: c.showPage()
PageBreak(current_frame) == current_frame > 0 /\ current_frame % frames_per_page = 0

\* The start of a pass of the loop of export_pdf: the page is turned when it is
\* full, and the heading of the frame is drawn.
FrameHeading(current_frame) ==
    (IF PageBreak(current_frame) THEN <<<<"showPage", ToString(current_frame)>>>> ELSE <<>>)
    \o <<<<"drawString", ToString(current_frame)>>>>

\* The loop of export_pdf over the frames q, current_frame and the drawing so
\* far: a frame whose text cannot be built ends it with TypeError.
RECURSIVE DrawFrames(_, _, _)
DrawFrames(q, current_frame, drawn_ops) ==
    IF q = <<>> THEN [error |-> "none", effects |-> drawn_ops]
    ELSE IF PdfRaises(<<Head(q)>>)
    THEN [error |-> "TypeError", effects |-> drawn_ops \o FrameHeading(current_frame)]
    ELSE DrawFrames(Tail(q), current_frame + 1,
                    drawn_ops \o FrameHeading(current_frame)
                    \o <<<<"drawText", ToString(current_frame)>>>>)

\* c.save() when the loop is over: the file is written.
SavePdf(made, title, dir) ==
    IF made.error # "none" THEN made
    ELSE [error |-> "none",
          effects |-> made.effects
                      \o <<<<"write", StrOf(Join(dir, <<Ch(title \o "_storyboard.pdf")>>))>>>>]

\* Storyboard.export_pdf(): what is drawn, page by page, and the file written
\* by c.save() at the end.
export_pdf(title, q, dir) == SavePdf(DrawFrames(q, 0, <<>>), title, dir)

\* export_html after the head of the document was built.
HtmlWritten(raised, title, dir) ==
    IF raised # "none" THEN [error |-> raised, effects |-> <<>>]
    ELSE [error |-> "none",
          effects |-> <<<<"write", StrOf(Join(dir, <<Ch(title \o "_storyboard.html")>>))>>>>]

\* Storyboard.export_html(): the head of the document evaluates
\* datetime.datetime.now().
export_html(title, q, dir) == HtmlWritten(NameLookup("datetime"), title, dir)

\* The copies export_frames makes: one for each frame that has an image.
RECURSIVE FrameCopies(_, _)
FrameCopies(q, dir) ==
    IF q = <<>> THEN <<>>
    ELSE IF q[1].image_path = PyNone THEN FrameCopies(Tail(q), dir)
    ELSE <<<<"copy", ImagePath(dir, q[1].scene_number)>>>> \o FrameCopies(Tail(q), dir)

\* Storyboard.export_frames()
export_frames(q, dir) ==
    [error |-> "none",
     effects |-> <<<<"makedirs", StrOf(Join(dir, <<Ch("frames")>>))>>>>
                 \o FrameCopies(q, Join(dir, <<Ch("frames")>>))]

\* The except clause of the command line: after logging, sys.exit(1) is
\* evaluated; the NameError it raises ends the process with status 1 as well.
HandlerError(e) == IF NameLookup("sys") = "none" THEN e ELSE NameLookup("sys")

\* ------------------------------------------------- the drawing of a description

\* The width the wrap allows a line of the description.
line_budget == 760

\* The advance of a character in the small font: a blank, a narrow letter, and
\* any other letter.
GlyphWidth(c) == IF c = Ch(" ") THEN 4 ELSE IF c = Ch("i") THEN 3 ELSE 13

\* The characters of s that are c, or that are none of the characters in others.
Glyphs(s, c) == Cardinality({i \in 1..Len(s) : s[i] = c})

OtherGlyphs(s, others) == Cardinality({i \in 1..Len(s) : s[i] \notin others})

\* d.textlength(s, font=small_font): the sum of the advances.
textlength(s) ==
    Glyphs(s, Ch(" ")) * GlyphWidth(Ch(" ")) + Glyphs(s, Ch("i")) * GlyphWidth(Ch("i"))
    + OtherGlyphs(s, {Ch(" "), Ch("i")}) * GlyphWidth(Ch("W"))

\* The first blank of s, Len(s) + 1 when it has none.
WordEnd(s) == LeastOrZero({i \in 1..(Len(s) + 1) : i = Len(s) + 1 \/ s[i] = Ch(" ")})

\* description.split(): the words between the runs of blanks.
RECURSIVE WordsOf(_)
WordsAfter(s, end) == <<SubSeq(s, 1, end - 1)>> \o WordsOf(SubSeq(s, end, Len(s)))

WordsOf(s) ==
    IF s = <<>> THEN <<>>
    ELSE IF Head(s) = Ch(" ") THEN WordsOf(Tail(s))
    ELSE WordsAfter(s, WordEnd(s))

\* The loop over the words with the line being filled and the lines drawn so
\* far, and the d.text of the last line after it.
RECURSIVE WrapWords(_, _, _)
WrapWords(q, filled, lines_drawn) ==
    IF q = <<>> THEN Append(lines_drawn, filled)
    ELSE IF textlength(filled \o Head(q) \o <<Ch(" ")>>) > line_budget
    THEN WrapWords(Tail(q), Head(q) \o <<Ch(" ")>>, Append(lines_drawn, filled))
    ELSE WrapWords(Tail(q), filled \o Head(q) \o <<Ch(" ")>>, lines_drawn)

\* The lines _generate_image_for_scene draws for a description.
wrap_description(s) == WrapWords(WordsOf(s), <<>>, <<>>)

\* ------------------------------------------------------------------ ToolsUpdater

\* The list get_tools_data returns: the one record written in the code.
get_tools_data ==
    <<[k \in {"Tool ID", "Tool Name", "Description", "Dependencies", "Last Updated",
              "Repository Path", "Documentation URL", "Integration Points",
              "Primary Technology", "Implementation Status"} |->
         CASE k = "Tool ID" -> "T001"
           [] k = "Tool Name" -> "SceneValidator"
           [] k = "Description" -> "Validates scene structure and continuity"
           [] k = "Dependencies" -> "Gemini API, Google Cloud Storage (optional)"
           [] k = "Last Updated" -> "2025-06-21"
           [] k = "Repository Path" -> "tools/SceneValidator"
           [] k = "Documentation URL" -> "https://docs.google.com/document/d/1H92"
           [] k = "Integration Points" -> "StoryboardGen, ContinuityTracker"
           [] k = "Primary Technology" -> "Python + Gemini API"
           [] k = "Implementation Status" -> "In Progress"]>>

\* stats as update_tools sets it before the loop.
InitialStats(data) ==
    [tools_updated |-> 0, docs_updated |-> 0, code_updated |-> 0, errors |-> 0,
     new_tools |-> 0, tools_processed |-> Len(data)]

\* An update operation that was called: under dry_run it logs and returns
\* False, otherwise it makes the update and returns True.
Operation(name, dry) ==
    IF dry THEN [done |-> FALSE, effects |-> <<<<"call", name>>>>]
    ELSE [done |-> TRUE, effects |-> <<<<"call", name>>, <<"do", name>>>>]

update_documentation(dry) == Operation("update_documentation", dry)

\* ensure_tool_directory returns False at once when the record has no
\* repository path.
ensure_tool_directory(tool, dry) ==
    IF DictGet(tool, "Repository Path", "") = ""
    THEN [done |-> FALSE, effects |-> <<<<"call", "ensure_tool_directory">>>>]
    ELSE Operation("ensure_tool_directory", dry)

update_tool_code(dry) == Operation("update_tool_code", dry)

update_last_updated(dry) == Operation("update_last_updated", dry)

send_den_message(dry) == Operation("send_den_message", dry)

\* if operation(tool): stats[key] += 1
Counted(key, made, acc) ==
    [stats |-> IF made.done THEN [acc.stats EXCEPT ![key] = @ + 1] ELSE acc.stats,
     effects |-> acc.effects \o made.effects]

\* if tool.get('Documentation URL'): ...
DocumentationStep(tool, dry, acc) ==
    IF DictGet(tool, "Documentation URL", "") # ""
    THEN Counted("docs_updated", update_documentation(dry), acc)
    ELSE acc

\* if repo_path: ...
RepositoryStep(tool, dry, acc) ==
    IF DictGet(tool, "Repository Path", "") # ""
    THEN Counted("code_updated", update_tool_code(dry),
               Counted("tools_updated", ensure_tool_directory(tool, dry), acc))
    ELSE acc

\* if not self.dry_run: self.update_last_updated(tool)
TimestampStep(dry, acc) ==
    IF dry THEN acc
    ELSE [stats |-> acc.stats, effects |-> acc.effects \o update_last_updated(dry).effects]

Tried(raised, acc) == [error |-> raised, stats |-> acc.stats, effects |-> acc.effects]

\* The try block of one pass of the loop: its first statement reads
\* tool['Tool Name'].
TryTool(tool, dry, acc) ==
    IF "Tool Name" \notin DOMAIN tool THEN Tried("KeyError", acc)
    ELSE Tried("none", TimestampStep(dry, RepositoryStep(tool, dry,
                                               DocumentationStep(tool, dry, acc))))

\* The except clause: its log line reads tool['Tool Name'] before errors is
\* incremented.
ExceptTool(tool, tried) ==
    IF tried.error = "none" THEN tried
    ELSE IF "Tool Name" \notin DOMAIN tool THEN Tried("KeyError", tried)
    ELSE [error |-> "none", stats |-> [tried.stats EXCEPT !.errors = @ + 1],
          effects |-> tried.effects]

\* One pass of the loop of update_tools over the record tool.
process_tool(tool, dry, acc) == ExceptTool(tool, TryTool(tool, dry, acc))

\* What run() does once update_tools returned: the summary is generated and
\* sent, then last_update_summary.md is opened for writing, which the file
\* system may refuse, and written.
report_run(dry, can_write) ==
    [error |-> IF can_write THEN "none" ELSE "OSError",
     effects |-> send_den_message(dry).effects
                 \o IF can_write THEN <<<<"write", "last_update_summary.md">>>> ELSE <<>>]

\* ------------------------------------------------------------------ inputs

\* Every sequence over S of at most n elements.
SeqsUpTo(S, n) == UNION {[1..k -> S] : k \in 0..n}

\* The concatenation of a sequence of texts.
RECURSIVE Flatten(_)
Flatten(q) == IF q = <<>> THEN <<>> ELSE Head(q) \o Flatten(Tail(q))

\* Script contents: up to MaxContent pieces, each a scene-header prefix, a
\* blank, a line break or a letter.
ContentPieces == {INT, EXT, <<Ch(" ")>>, <<Ch("\n")>>, <<Ch("x")>>}

Contents == {Flatten(q) : q \in SeqsUpTo(ContentPieces, MaxContent)}

\* File types: the screenplay extensions, another one, and one in upper case.
FileTypes == {".fdx", ".fountain", ".txt", ".FDX"}

\* A field a record of the response does not have.
Absent == <<"absent", "absent">>

\* A record of the response with issue_type it and severity sev, each possibly
\* absent, and the other three fields all present (rest) or all absent.
MkRecord(it, sev, rest) ==
    LET keys == (IF it # Absent THEN {"issue_type"} ELSE {})
                \cup (IF sev # Absent THEN {"severity"} ELSE {})
                \cup (IF rest THEN {"description", "location", "suggestions"} ELSE {})
    IN PyDict([k \in keys |->
                 CASE k = "issue_type" -> it
                   [] k = "severity" -> sev
                   [] k = "description" -> PyStr("d")
                   [] k = "location" -> PyStr("l")
                   [] k = "suggestions" -> StrList(<<"s">>)])

\* The records explored: every choice of issue_type and severity with the other
\* fields absent, and one record with every field.
Records ==
    {MkRecord(it, sev, FALSE) :
        it \in {Absent, PyStr("x")},
        sev \in {Absent, PyStr("high"), PyStr("medium"), PyStr("low"), PyStr("critical")}}
    \cup {MkRecord(PyStr("x"), PyStr("low"), TRUE)}

\* What a JSON list of the response may hold: records, and a number.
Items == Records \cup {PyInt(5)}

ItemLists == SeqsUpTo(Items, MaxRecords)

\* The JSON values a response may serialise: a list, an object whose "issues"
\* is a list, a number or null, an object without "issues", and scalars.
JsonValues ==
    {PyList(q) : q \in ItemLists}
    \cup {PyDict([k \in {"issues"} |-> PyList(q)]) : q \in ItemLists}
    \cup {PyDict([k \in {"issues"} |-> PyInt(5)]), PyDict([k \in {"issues"} |-> PyNone]),
          PyDict([k \in {"status"} |-> PyStr("ok")]), PyInt(5), PyStr("x"), PyNone}

\* [{"issue_type": "x"}] and [{"severity": "high"}]
DocX == PyList(<<MkRecord(PyStr("x"), Absent, FALSE)>>)
DocHigh == PyList(<<MkRecord(Absent, PyStr("high"), FALSE)>>)

\* Response texts by shape: up to MaxResp pieces, each a fence, a fence tagged
\* json, a blank, a letter or one of two JSON texts; and three longer texts in
\* which a plain block and a json-tagged block both occur.
ShapePieces ==
    {Fence, Fence \o JsonTag, <<Ch(" ")>>, <<Ch("x")>>, <<Doc(DocX)>>, <<Doc(DocHigh)>>}

ShapeTexts ==
    {Flatten(q) : q \in SeqsUpTo(ShapePieces, MaxResp)}
    \cup {Fence \o <<Doc(DocHigh)>> \o Fence \o <<Ch(" ")>>
             \o Fence \o JsonTag \o <<Doc(DocX)>> \o Fence,
          Fence \o <<Doc(DocHigh)>> \o Fence \o JsonTag \o <<Doc(DocX)>> \o Fence,
          Fence \o JsonTag \o <<Doc(DocX)>> \o Fence \o <<Ch("x")>>
             \o Fence \o <<Doc(DocHigh)>> \o Fence}

\* Response texts by payload: each JSON value bare, and in a json-tagged block.
DocTexts ==
    {<<Doc(v)>> : v \in JsonValues}
    \cup {Fence \o JsonTag \o <<Ch("\n"), Doc(v), Ch("\n")>> \o Fence : v \in JsonValues}

GenerateRaises == [kind |-> "generate_raises", text |-> <<>>]
TextRaises == [kind |-> "text_raises", text |-> <<>>]
Responds(t) == [kind |-> "text", text |-> t]

\* Every behaviour of the external service.
Services ==
    {GenerateRaises, TextRaises} \cup {Responds(t) : t \in ShapeTexts \cup DocTexts}

\* A few behaviours, one per outcome of the extractor.
CoreServices ==
    {GenerateRaises, TextRaises, Responds(<<Ch("x")>>), Responds(<<Doc(PyList(<<>>))>>),
     Responds(<<Doc(DocHigh)>>),
     Responds(<<Doc(PyList(<<MkRecord(PyStr("x"), PyStr("low"), TRUE), PyInt(5)>>))>>)}

\* The calls of validate_content explored: with no model configured the service
\* is never contacted and one behaviour stands for all; with a model, every
\* content and type with the core behaviours, and one content with every
\* behaviour.
Inputs(model) ==
    IF model
    THEN (Contents \X FileTypes \X CoreServices)
         \cup ({<<Ch("x")>>} \X {".fountain"} \X Services)
    ELSE Contents \X FileTypes \X {GenerateRaises}

Configs == {{}, {"gemini_model"}, {"gemini_api_key"}, {"gemini_api_key", "gemini_model"}}

\* A field of an issue that holds no str: a record of the response may give
\* null for its severity, or a number for its suggestions.
NullSeverity == MkRecord(Absent, PyNone, FALSE)
NumberSuggestions ==
    PyDict([k \in {"severity", "suggestions"} |->
              IF k = "severity" THEN PyStr("low") ELSE PyInt(5)])

\* Most issues in a result whose report is asked for.
MaxIssues == 2

\* The issues of those results: the issues the rules and the extractor
\* construct, and issues converted from records of a response.
ReportIssues ==
    {MissingSceneHeaders, EmptyContent, GeminiParsingError,
     IssueOfItem(MkRecord(Absent, PyStr("high"), FALSE)),
     IssueOfItem(MkRecord(PyStr("x"), PyStr("critical"), FALSE)),
     IssueOfItem(NullSeverity), IssueOfItem(NumberSuggestions)}

\* The results validate_content builds from them.
Results ==
    {EmptyResult}
    \cup {ValidationResult(Validity(q), q, Summary(q)) :
             q \in SeqsUpTo(ReportIssues, MaxIssues)}

\* The characters of a string literal.
Json == <<Ch("j"), Ch("s"), Ch("o"), Ch("n")>>
Html == <<Ch("h"), Ch("t"), Ch("m"), Ch("l")>>

\* Values of get_report's format: the two names, in other cases too, and others.
Formats ==
    {Json, Html, <<Ch("J"), Ch("S"), Ch("O"), Ch("N")>>,
     <<Ch("H"), Ch("t"), Ch("m"), Ch("l")>>, <<Ch("x"), Ch("m"), Ch("l")>>,
     <<Ch("p"), Ch("d"), Ch("f")>>, <<>>}

\* Most characters in the path of a script file.
MaxPath == 3

PathChars == {Ch("a"), Ch("."), Ch("/"), Ch("F")}

Paths == SeqsUpTo(PathChars, MaxPath)

ScriptFdx == <<Ch("s"), Ch("."), Ch("F"), Ch("d"), Ch("x")>>

Missing == [exists |-> FALSE, text |-> <<>>]
File(text) == [exists |-> TRUE, text |-> text]

\* What the script path may hold: nothing, or a file that is empty, has no
\* scene header, or has one.
ScriptEntries == {Missing, File(<<>>), File(<<Ch("x")>>), File(INT \o <<Ch("x")>>)}

NoConfigFile == [exists |-> FALSE, json |-> <<>>]
ConfigFile(d) == [exists |-> TRUE, json |-> d]

\* The dicts a config file may hold.
ConfigDicts ==
    {<<>>, [k \in {"gemini_api_key"} |-> "k"], [k \in {"gemini_api_key"} |-> ""],
     [k \in {"gemini_model"} |-> "m"]}

ConfigEntries == {NoConfigFile} \cup {ConfigFile(d) : d \in ConfigDicts}

\* os.environ with and without the key.
Environs == {<<>>, [k \in {"GEMINI_API_KEY"} |-> "k"]}

\* The behaviours of the service a command-line run meets.
CliServices ==
    {GenerateRaises, Responds(<<Doc(DocHigh)>>), Responds(<<Doc(PyList(<<NullSeverity>>))>>)}

\* A launch of the command line: the arguments, the files, the environment,
\* whether the client library is installed, and the service.
Launch(file, entry, config_path, config_entry, env, lib, fmt, svc) ==
    [args |-> [file |-> file, config |-> config_path, format |-> fmt],
     files |-> [script |-> entry, config |-> config_entry],
     environ |-> env, gemini_available |-> lib, service |-> svc]

\* The launches explored: every path and script entry with no configuration;
\* and one script with every configuration, environment, service and format.
Launches ==
    {Launch(p, e, "none", NoConfigFile, <<>>, TRUE, Json, GenerateRaises) :
        p \in Paths \ {<<>>}, e \in ScriptEntries}
    \cup {Launch(<<>>, Missing, "none", NoConfigFile, <<>>, TRUE, Json, GenerateRaises)}
    \cup {Launch(ScriptFdx, File(<<Ch("x")>>), cp, ce, env, lib, fmt, svc) :
            cp \in {"none", "config.json"}, ce \in ConfigEntries, env \in Environs,
            lib \in BOOLEAN, fmt \in {Json, Html}, svc \in CliServices}


\* How far around each limit the lengths of long contents go.
Margin == 12

\* A content of n characters, no two neighbours alike.
LongContent(n) == [i \in 1..n |-> Ch(ToString(i % 10))]

\* Lengths of content: short, and around the two limits.
PromptLengths ==
    (0..Margin)
    \cup ((max_length - Margin)..(max_length + Margin))
    \cup ((script_limit - Margin)..(script_limit + Margin))

\* ----------------------------------------------------------------- actions

\* -------------------------------------------------- inputs of storyboard_gen.py

\* The keys of a scene, in the order the prompt of parse_script lists them, and
\* those of its camera suggestions.
SceneKeys ==
    <<"scene_number", "location", "time_of_day", "description", "characters",
      "key_visual_elements", "camera_suggestions", "angle", "movement">>

InDict(f, k) == k \in DOMAIN f

\* The JSON text of a value as the service writes it, on one line.
RECURSIVE Encode(_)
RECURSIVE EncodeItems(_)
RECURSIVE EncodeMembers(_, _)
EncodeItems(q) ==
    IF Len(q) = 1 THEN Encode(q[1])
    ELSE Encode(Head(q)) \o <<Ch(","), Ch(" ")>> \o EncodeItems(Tail(q))

EncodeMembers(keys, f) ==
    IF Len(keys) = 1 THEN DumpMember(keys[1], Encode(f[keys[1]]))
    ELSE DumpMember(Head(keys), Encode(f[Head(keys)])) \o <<Ch(","), Ch(" ")>>
         \o EncodeMembers(Tail(keys), f)

EncodeDict(keys, f) ==
    IF keys = <<>> THEN <<Ch("{"), Ch("}")>>
    ELSE <<Ch("{")>> \o EncodeMembers(keys, f) \o <<Ch("}")>>

Encode(v) ==
    CASE TypeOf(v) \in {"str", "int", "NoneType", "bool"} -> <<Lit(v)>>
      [] TypeOf(v) = "list" /\ ValueOf(v) = <<>> -> <<Ch("["), Ch("]")>>
      [] TypeOf(v) = "list" /\ ValueOf(v) # <<>> ->
            <<Ch("[")>> \o EncodeItems(ValueOf(v)) \o <<Ch("]")>>
      [] TypeOf(v) = "dict" ->
            EncodeDict(SelectSeq(SceneKeys, LAMBDA k : InDict(ValueOf(v), k)), ValueOf(v))

\* The scenes the service may describe.
SceneFull ==
    PyDict([k \in {"scene_number", "location", "time_of_day", "description", "characters",
                   "key_visual_elements", "camera_suggestions"} |->
              CASE k = "scene_number" -> PyStr("2")
                [] k = "location" -> PyStr("INT. LAB")
                [] k = "time_of_day" -> PyStr("DAY")
                [] k = "description" -> PyStr("a b")
                [] k = "characters" -> PyList(<<PyStr("ANN")>>)
                [] k = "key_visual_elements" -> PyStr("lamp")
                [] k = "camera_suggestions" ->
                      PyDict([c \in {"angle", "movement"} |->
                                IF c = "angle" THEN PyStr("Wide") ELSE PyStr("Pan")])])

SceneBrief ==
    PyDict([k \in {"scene_number", "description"} |->
              IF k = "scene_number" THEN PyStr("1") ELSE PyStr("c")])

SceneUnnumbered == PyDict([k \in {"description"} |-> PyStr("d")])

\* Another scene that the service numbers "1".
SceneRetake ==
    PyDict([k \in {"scene_number", "description"} |->
              IF k = "scene_number" THEN PyStr("1") ELSE PyStr("e")])

SceneNullDescription ==
    PyDict([k \in {"scene_number", "description"} |->
              IF k = "scene_number" THEN PyStr("3") ELSE PyNone])

SceneStringCamera ==
    PyDict([k \in {"scene_number", "camera_suggestions"} |->
              IF k = "scene_number" THEN PyStr("4") ELSE PyStr("close")])

SceneIntNumber == PyDict([k \in {"scene_number"} |-> PyInt(5)])

SceneValues ==
    {SceneFull, SceneBrief, SceneUnnumbered, SceneRetake, SceneNullDescription,
     SceneStringCamera, SceneIntNumber, PyInt(7)}

\* The longest list of scenes in a response.
MaxScenes == 2

SceneLists == UNION {[1..n -> SceneValues] : n \in 0..MaxScenes}

Prose == <<Ch("H"), Ch("i"), Ch(" ")>>

\* The texts of a response: an array alone, in prose, inside an object, two
\* arrays, and texts that hold no array or a broken one.
ResponseTexts ==
    {Encode(PyList(q)) : q \in SceneLists}
    \cup {Prose \o Encode(PyList(<<s>>)) \o Prose : s \in SceneValues}
    \cup {Encode(PyDict([k \in {"scenes"} |-> PyList(<<SceneBrief>>)])),
          Encode(PyList(<<SceneBrief>>)) \o Prose \o Encode(PyList(<<SceneFull>>)),
          Prose, <<>>, <<Ch("[")>>, <<Ch("]"), Ch("[")>>, <<Ch("["), Ch("x"), Ch("]")>>,
          <<Ch("["), Lit(PyInt(1)), Ch(","), Ch("]")>>}

\* The longest storyboard explored.
MaxFrames == 7

\* A scene with its number, and the list of the first n of them.
SceneNumbered(i) ==
    PyDict([k \in {"scene_number", "description"} |->
              IF k = "scene_number" THEN PyStr(ToString(i)) ELSE PyStr("c")])

LongSceneList(n) == PyList([i \in 1..n |-> SceneNumbered(i)])

LongResponseTexts == {Encode(LongSceneList(n)) : n \in (MaxScenes + 1)..MaxFrames}

SbServices ==
    {GenerateRaises, TextRaises} \cup {Responds(t) : t \in ResponseTexts \cup LongResponseTexts}

\* The dicts a config file of the generator may hold.
SbConfigDicts ==
    {<<>>,
     [k \in {"gemini_api_key"} |-> PyStr("k")],
     [k \in {"gemini_api_key"} |-> PyStr("")],
     [k \in {"gemini_api_key"} |-> PyNone],
     [k \in {"generate_images"} |-> PyBool(FALSE)],
     [k \in {"gemini_api_key", "generate_images"} |->
        IF k = "gemini_api_key" THEN PyStr("k") ELSE PyBool(FALSE)]}

SbConfigEntries == {NoConfigFile} \cup {ConfigFile(d) : d \in SbConfigDicts}

\* os.environ without the key, with a key and with an empty one.
SbEnvirons ==
    {<<>>, [k \in {"GEMINI_API_KEY"} |-> PyStr("k")], [k \in {"GEMINI_API_KEY"} |-> PyStr("")]}

ScriptTxt == <<Ch("s"), Ch("."), Ch("t"), Ch("x"), Ch("t")>>

SbScriptPaths == {ScriptTxt, <<Ch("d"), Ch("/")>> \o ScriptTxt, <<Ch("/")>> \o ScriptTxt}

SbOutputs == {<<>>, <<Ch("o"), Ch("u"), Ch("t")>>}

SbFormats == {"pdf", "html", "frames", "all"}

\* A launch of storyboard_gen.py: the arguments, the files, the environment and
\* the service.
SbLaunch(script_path, entry, config_path, config_entry, can_save, env, output, fmt, svc) ==
    [args |-> [script_path |-> script_path, config |-> config_path, output |-> output,
               format |-> fmt],
     files |-> [script |-> entry, config |-> config_entry, writable |-> can_save],
     environ |-> env, service |-> svc]

\* The launches explored: every configuration and environment; every script
\* path and output directory; and, with a key configured, every script entry,
\* service, format and image setting.
SbLaunches ==
    {SbLaunch(ScriptTxt, File(<<Ch("x")>>), cp, ce, TRUE, env, <<>>, "all",
              Responds(Encode(PyList(<<SceneBrief>>)))) :
        cp \in {"none", "config.json"}, ce \in SbConfigEntries, env \in SbEnvirons}
    \cup {SbLaunch(p, e, "none", NoConfigFile, TRUE, [k \in {"GEMINI_API_KEY"} |-> PyStr("k")],
                   o, fmt, Responds(Encode(PyList(<<SceneBrief, SceneFull>>)))) :
            p \in SbScriptPaths, e \in {Missing, File(<<Ch("x")>>)}, o \in SbOutputs,
            fmt \in SbFormats}
    \cup {SbLaunch(ScriptTxt, File(<<Ch("x")>>), "config.json", ConfigFile(d), w,
                   [k \in {"GEMINI_API_KEY"} |-> PyStr("k")], <<>>, fmt, svc) :
            d \in {[k \in {"generate_images"} |-> PyBool(FALSE)], <<>>}, w \in BOOLEAN,
            fmt \in SbFormats, svc \in SbServices}

\* --------------------------------------------------- the descriptions drawn

Repeat(c, n) == [i \in 1..n |-> c]

\* Words of 260, 377, 756 and 767 pixels: with its blank the third fills a line
\* exactly and the fourth is wider than a line.
DrawnWords ==
    {Repeat(Ch("W"), 20), Repeat(Ch("W"), 29),
     Repeat(Ch("W"), 57) \o Repeat(Ch("i"), 5), Repeat(Ch("W"), 59)}

\* The most words in a description.
MaxWords == 3

RECURSIVE JoinWords(_, _)
JoinWords(q, sep) ==
    IF q = <<>> THEN <<>>
    ELSE IF Len(q) = 1 THEN q[1]
    ELSE Head(q) \o sep \o JoinWords(Tail(q), sep)

\* The descriptions: up to MaxWords words set apart by one blank or by two, with
\* or without a blank in front.
Descriptions ==
    {lead \o JoinWords(q, sep) :
        lead \in {<<>>, <<Ch(" ")>>}, sep \in {<<Ch(" ")>>, <<Ch(" "), Ch(" ")>>},
        q \in UNION {[1..n -> DrawnWords] : n \in 0..MaxWords}}

\* ----------------------------------------------------- inputs of update_tools.py

\* A record of the tracking sheet with the fields update_tools reads; "absent"
\* stands for a field the record lacks.
ToolRecord(name, doc, repo) ==
    [k \in {f \in {"Tool Name", "Documentation URL", "Repository Path"} :
              CASE f = "Tool Name" -> name # "absent"
                [] f = "Documentation URL" -> doc # "absent"
                [] f = "Repository Path" -> repo # "absent"} |->
        CASE k = "Tool Name" -> name
          [] k = "Documentation URL" -> doc
          [] k = "Repository Path" -> repo]

ToolRecords ==
    {ToolRecord(name, doc, repo) :
        name \in {"absent", "T"}, doc \in {"absent", "", "https://d"},
        repo \in {"absent", "tools/T"}}

\* The longest list of records given to update_tools.
MaxTools == 2

ToolLists == UNION {[1..n -> ToolRecords] : n \in 0..MaxTools}

\* No command line is running.
NoArgs == [file |-> <<>>, config |-> "none", format |-> "json"]
NoFiles == [script |-> [exists |-> FALSE, text |-> <<>>],
            config |-> [exists |-> FALSE, json |-> <<>>]]

\* The same for storyboard_gen.py, with whether image files can be saved.
NoSbFiles == [script |-> [exists |-> FALSE, text |-> <<>>],
              config |-> [exists |-> FALSE, json |-> <<>>],
              writable |-> TRUE]

CliIdle ==
    /\ args = NoArgs
    /\ files = NoFiles
    /\ environ = <<>>
    /\ gemini_available = FALSE
    /\ self_config = <<>>
    /\ stdout = <<>>
    /\ error = "none"
    /\ exit_code = "running"

\* No direct call of get_report is under way.
NoReport == [raised |-> "none", text |-> <<>>]

ReportIdle ==
    /\ format = <<>>
    /\ report = NoReport
    /\ reloaded = [raised |-> FALSE, value |-> PyNone]

\* No storyboard is being generated.
NoSbArgs == [script_path |-> <<>>, config |-> "none", output |-> <<>>, format |-> "all"]

\* stats before update_tools has set it.
NoStats ==
    [tools_updated |-> 0, docs_updated |-> 0, code_updated |-> 0, errors |-> 0,
     new_tools |-> 0, tools_processed |-> 0]

SbIdle ==
    /\ sb_args = NoSbArgs
    /\ sb_files = NoSbFiles
    /\ sb_environ = <<>>
    /\ sb_service = [kind |-> "generate_raises", text |-> <<>>]
    /\ sb_config = <<>>
    /\ script_content = <<>>
    /\ sb_prompt = <<>>
    /\ scenes = <<>>
    /\ frames = <<>>
    /\ sb_effects = <<>>
    /\ sb_error = "none"
    /\ sb_exit = "running"

\* No update is running.
UpIdle ==
    /\ dry_run = FALSE
    /\ tools_data = <<>>
    /\ tool_index = 0
    /\ stats = NoStats
    /\ up_effects = <<>>
    /\ up_error = "none"

\* No description is being drawn.
DrawIdle == scene_description = <<>> /\ drawn_lines = <<>>

OutsideValidatorIdle == CliIdle /\ ReportIdle /\ SbIdle /\ UpIdle /\ DrawIdle

Init ==
    /\ pc = "start"
    /\ gemini_model = FALSE
    /\ content = <<>>
    /\ file_type = ".txt"
    /\ service = GenerateRaises
    /\ calls = <<>>
    /\ stages = NoStages
    /\ prompt = <<>>
    /\ json_str = <<>>
    /\ result = NoResult
    /\ OutsideValidatorIdle

\* validator = SceneValidator(config_path)
Construct ==
    /\ pc = "start"
    /\ \E available \in BOOLEAN, config \in Configs :
          gemini_model' = InitGeminiModel(available, config)
    /\ pc' = "ready"
    /\ UNCHANGED <<content, file_type, service, calls, stages, prompt, json_str, result>>
    /\ UNCHANGED outsideValidator

\* The outcome r of the call reaches the caller.
Returns(r) ==
    /\ calls' = r.calls
    /\ stages' = r.stages
    /\ prompt' = r.prompt
    /\ json_str' = r.json_str
    /\ result' = r.result
    /\ pc' = IF r.raised THEN "raised" ELSE "returned"

\* result = validator.validate_content(content, file_type)
ValidateContent ==
    /\ pc = "ready"
    /\ \E in \in Inputs(gemini_model) :
          /\ content' = in[1]
          /\ file_type' = in[2]
          /\ service' = in[3]
          /\ Returns(validate_content(gemini_model, in[1], in[2], in[3]))
    /\ UNCHANGED gemini_model
    /\ UNCHANGED outsideValidator

Next == Construct \/ ValidateContent

Spec == Init /\ [][Next]_vars

\* ------------------------------------------- the command line of the validator

\* python scene_validator.py file [--config path] [--format json|html]
CliStart ==
    /\ pc = "start"
    /\ \E l \in Launches :
          /\ args' = l.args
          /\ files' = l.files
          /\ environ' = l.environ
          /\ gemini_available' = l.gemini_available
          /\ service' = l.service
    /\ pc' = "main"
    /\ UNCHANGED <<gemini_model, content, file_type, calls, stages, prompt, json_str,
                   result, self_config, stdout, error, exit_code>>
    /\ UNCHANGED outsideCli

\* validator = SceneValidator(config_path=args.config)
CliConstruct ==
    /\ pc = "main"
    /\ self_config' = LoadConfig(args.config, files.config)
    /\ gemini_model' = InitGeminiModel(gemini_available, DOMAIN self_config')
    /\ pc' = "ready"
    /\ UNCHANGED <<content, file_type, service, calls, stages, prompt, json_str, result,
                   args, files, environ, gemini_available, stdout, error, exit_code>>
    /\ UNCHANGED outsideCli

\* The outcome r of validate_file reaches the caller.
FileReturns(r) ==
    /\ content' = r.content
    /\ file_type' = r.file_type
    /\ calls' = r.calls
    /\ stages' = r.stages
    /\ prompt' = r.prompt
    /\ json_str' = r.json_str
    /\ result' = r.result
    /\ error' = r.error
    /\ pc' = IF r.error = "none" THEN "returned" ELSE "raised"

\* result = validator.validate_file(args.file)
CliValidateFile ==
    /\ pc = "ready"
    /\ FileReturns(validate_file(gemini_model, args.file, files.script, service))
    /\ UNCHANGED <<gemini_model, service, args, files, environ, gemini_available,
                   self_config, stdout, exit_code>>
    /\ UNCHANGED outsideCli

\* The report rep is printed and the process ends, or the exception of
\* get_report is raised.
Prints(rep) ==
    /\ stdout' = rep.text
    /\ error' = rep.raised
    /\ pc' = IF rep.raised = "none" THEN "done" ELSE "raised"
    /\ exit_code' = IF rep.raised = "none" THEN "0" ELSE exit_code

\* print(result.get_report(format=args.format))
CliPrintReport ==
    /\ pc = "returned"
    /\ Prints(get_report(result, args.format))
    /\ UNCHANGED <<gemini_model, content, file_type, service, calls, stages, prompt,
                   json_str, result, args, files, environ, gemini_available,
                   self_config>>
    /\ UNCHANGED outsideCli

\* except Exception as e: print(f"Error: {e}"); exit(1)
CliError ==
    /\ pc = "raised"
    /\ stdout' = <<"Error: ", error>>
    /\ exit_code' = "1"
    /\ error' = "none"
    /\ pc' = "done"
    /\ UNCHANGED <<gemini_model, content, file_type, service, calls, stages, prompt,
                   json_str, result, args, files, environ, gemini_available,
                   self_config>>
    /\ UNCHANGED outsideCli

CliNext == CliStart \/ CliConstruct \/ CliValidateFile \/ CliPrintReport \/ CliError

SpecCli == Init /\ [][CliNext]_vars

\* ------------------------------------------------- a direct call of get_report

\* The report rep is returned, or its exception raised.
ReportReturns(rep) ==
    /\ report' = rep
    /\ pc' = IF rep.raised = "none" THEN "reported" ELSE "raised"

\* report = result.get_report(format)
GetReport ==
    /\ pc = "start"
    /\ \E r \in Results, f \in Formats :
          /\ result' = r
          /\ format' = f
          /\ ReportReturns(get_report(r, f))
    /\ UNCHANGED <<gemini_model, content, file_type, service, calls, stages, prompt,
                   json_str, reloaded>>
    /\ UNCHANGED outsideReport

\* json.loads(report) of a report in the JSON form.
LoadReport ==
    /\ pc = "reported"
    /\ StrOf(Lower(format)) = "json"
    /\ reloaded' = json_loads(report.text)
    /\ pc' = "reloaded"
    /\ UNCHANGED <<gemini_model, content, file_type, service, calls, stages, prompt,
                   json_str, result, format, report>>
    /\ UNCHANGED outsideReport

ReportNext == GetReport \/ LoadReport

SpecReport == Init /\ [][ReportNext]_vars

\* ------------------------------------------------- the prompts, on long content

\* The prompt of _analyze_with_gemini is built for a content of any length.
BuildAnalysisPrompt ==
    /\ pc = "start"
    /\ \E n \in PromptLengths :
          /\ content' = LongContent(n)
          /\ prompt' = analysis_content(LongContent(n))
    /\ pc' = "analysis_prompt"
    /\ UNCHANGED <<gemini_model, file_type, service, calls, stages, json_str, result>>
    /\ UNCHANGED outsideValidator

\* The prompt of parse_script is built for a script of any length.
BuildParsePrompt ==
    /\ pc = "start"
    /\ \E n \in PromptLengths :
          /\ script_content' = LongContent(n)
          /\ sb_prompt' = embedded_script(LongContent(n))
    /\ pc' = "parse_prompt"
    /\ UNCHANGED <<sb_args, sb_files, sb_environ, sb_service, sb_config, scenes, frames,
                   sb_effects, sb_error, sb_exit>>
    /\ UNCHANGED <<gemini_model, content, file_type, service, calls, stages, prompt,
                   json_str, result>>
    /\ UNCHANGED <<cliVars, reportVars, upVars, drawVars>>

PromptNext == BuildAnalysisPrompt \/ BuildParsePrompt

SpecPrompt == Init /\ [][PromptNext]_vars

\* ------------------------------------------ the command line of storyboard_gen.py

outsideStoryboard == <<cliVars, reportVars, upVars, drawVars>>

validatorState ==
    <<gemini_model, content, file_type, service, calls, stages, prompt, json_str, result>>

\* The process starts with its arguments, in its world.
SbStart ==
    /\ pc = "start"
    /\ \E l \in SbLaunches :
          /\ sb_args' = l.args
          /\ sb_files' = l.files
          /\ sb_environ' = l.environ
          /\ sb_service' = l.service
    /\ pc' = "sb_main"
    /\ UNCHANGED <<sb_config, script_content, sb_prompt, scenes, frames, sb_effects,
                   sb_error, sb_exit>>
    /\ UNCHANGED <<validatorState, outsideStoryboard>>

\* generator = StoryboardGenerator(config_path=args.config)
SbConstructed(made) ==
    /\ sb_config' = made.config
    /\ sb_error' = made.error
    /\ pc' = IF made.error = "none" THEN "sb_ready" ELSE "sb_raised"

SbConstruct ==
    /\ pc = "sb_main"
    /\ SbConstructed(sb_init(LoadConfig(sb_args.config, sb_files.config), sb_environ))
    /\ UNCHANGED <<sb_args, sb_files, sb_environ, sb_service, script_content, sb_prompt,
                   scenes, frames, sb_effects, sb_exit>>
    /\ UNCHANGED <<validatorState, outsideStoryboard>>

\* storyboard = generator.generate_from_script(args.script_path, args.output)
SbGenerated(made) ==
    /\ script_content' = made.content
    /\ sb_prompt' = made.prompt
    /\ scenes' = made.scenes
    /\ frames' = made.frames
    /\ sb_effects' = sb_effects \o made.effects
    /\ sb_error' = made.error
    /\ pc' = IF made.error = "none" THEN "sb_pdf" ELSE "sb_raised"

SbGenerate ==
    /\ pc = "sb_ready"
    /\ SbGenerated(generate_from_script(sb_config, sb_args.script_path, sb_args.output,
                                        sb_files, sb_service))
    /\ UNCHANGED <<sb_args, sb_files, sb_environ, sb_service, sb_config, sb_exit>>
    /\ UNCHANGED <<validatorState, outsideStoryboard>>

\* One of the three export statements: the export named runs when the format
\* asks for it, and the next statement follows unless it raised.
SbExported(name, wanted, made, next) ==
    /\ sb_effects' = IF wanted THEN sb_effects \o <<<<"call", name>>>> \o made.effects
                     ELSE sb_effects
    /\ sb_error' = IF wanted THEN made.error ELSE "none"
    /\ pc' = IF wanted /\ made.error # "none" THEN "sb_raised" ELSE next

SbTitle == StrOf(basename(sb_args.script_path))

SbOutputDir == OutputDir(sb_args.script_path, sb_args.output)

\* if args.format == 'pdf' or args.format == 'all': storyboard.export_pdf()
SbExportPdf ==
    /\ pc = "sb_pdf"
    /\ SbExported("export_pdf", sb_args.format \in {"pdf", "all"},
                  export_pdf(SbTitle, frames, SbOutputDir), "sb_html")
    /\ UNCHANGED <<sb_args, sb_files, sb_environ, sb_service, sb_config, script_content,
                   sb_prompt, scenes, frames, sb_exit>>
    /\ UNCHANGED <<validatorState, outsideStoryboard>>

\* if args.format == 'html' or args.format == 'all': storyboard.export_html()
SbExportHtml ==
    /\ pc = "sb_html"
    /\ SbExported("export_html", sb_args.format \in {"html", "all"},
                  export_html(SbTitle, frames, SbOutputDir), "sb_frames")
    /\ UNCHANGED <<sb_args, sb_files, sb_environ, sb_service, sb_config, script_content,
                   sb_prompt, scenes, frames, sb_exit>>
    /\ UNCHANGED <<validatorState, outsideStoryboard>>

\* if args.format == 'frames' or args.format == 'all': storyboard.export_frames()
SbExportFrames ==
    /\ pc = "sb_frames"
    /\ SbExported("export_frames", sb_args.format \in {"frames", "all"},
                  export_frames(frames, SbOutputDir), "sb_exported")
    /\ UNCHANGED <<sb_args, sb_files, sb_environ, sb_service, sb_config, script_content,
                   sb_prompt, scenes, frames, sb_exit>>
    /\ UNCHANGED <<validatorState, outsideStoryboard>>

\* The end of the try block: the success is logged and the process ends.
SbFinish ==
    /\ pc = "sb_exported"
    /\ pc' = "sb_done"
    /\ sb_exit' = "0"
    /\ UNCHANGED <<sb_args, sb_files, sb_environ, sb_service, sb_config, script_content,
                   sb_prompt, scenes, frames, sb_effects, sb_error>>
    /\ UNCHANGED <<validatorState, outsideStoryboard>>

\* except Exception as e: the error is logged and the process ends with
\* status 1.
SbError ==
    /\ pc = "sb_raised"
    /\ pc' = "sb_failed"
    /\ sb_error' = HandlerError(sb_error)
    /\ sb_exit' = "1"
    /\ UNCHANGED <<sb_args, sb_files, sb_environ, sb_service, sb_config, script_content,
                   sb_prompt, scenes, frames, sb_effects>>
    /\ UNCHANGED <<validatorState, outsideStoryboard>>

SbNext ==
    \/ SbStart
    \/ SbConstruct
    \/ SbGenerate
    \/ SbExportPdf
    \/ SbExportHtml
    \/ SbExportFrames
    \/ SbFinish
    \/ SbError

SpecStoryboard == Init /\ [][SbNext]_vars

\* --------------------------------------------------------------- update_tools.py

outsideUpdater == <<cliVars, reportVars, sbVars, drawVars>>

\* run() was called, not update_tools alone.
InRun == up_effects # <<>> /\ up_effects[1] = <<"call", "run">>

\* updater = ToolsUpdater(dry_run=...); updater.run(): the data is retrieved
\* and update_tools starts on it.
UpRun ==
    /\ pc = "start"
    /\ \E dry \in BOOLEAN : dry_run' = dry
    /\ tools_data' = get_tools_data
    /\ stats' = InitialStats(get_tools_data)
    /\ tool_index' = 0
    /\ up_effects' = <<<<"call", "run">>>>
    /\ pc' = "up_loop"
    /\ UNCHANGED up_error
    /\ UNCHANGED <<validatorState, outsideUpdater>>

\* ToolsUpdater(dry_run=...).update_tools(tools_data) on a list of records.
UpUpdateTools ==
    /\ pc = "start"
    /\ \E dry \in BOOLEAN : dry_run' = dry
    /\ \E data \in ToolLists :
          /\ tools_data' = data
          /\ stats' = InitialStats(data)
    /\ tool_index' = 0
    /\ up_effects' = <<<<"call", "update_tools">>>>
    /\ pc' = "up_loop"
    /\ UNCHANGED up_error
    /\ UNCHANGED <<validatorState, outsideUpdater>>

\* One pass of the loop: for tool in tools_data.
UpProcessed(made) ==
    /\ stats' = made.stats
    /\ up_effects' = made.effects
    /\ up_error' = made.error
    /\ tool_index' = IF made.error = "none" THEN tool_index + 1 ELSE tool_index
    /\ pc' = IF made.error = "none" THEN "up_loop" ELSE "up_raised"

UpProcessTool ==
    /\ pc = "up_loop"
    /\ tool_index < Len(tools_data)
    /\ UpProcessed(process_tool(tools_data[tool_index + 1], dry_run,
                                [stats |-> stats, effects |-> up_effects]))
    /\ UNCHANGED <<dry_run, tools_data>>
    /\ UNCHANGED <<validatorState, outsideUpdater>>

\* return stats
UpReturn ==
    /\ pc = "up_loop"
    /\ tool_index = Len(tools_data)
    /\ pc' = "up_updated"
    /\ UNCHANGED upVars
    /\ UNCHANGED <<validatorState, outsideUpdater>>

\* The rest of the try block of run().
UpReported(made) ==
    /\ up_effects' = up_effects \o made.effects
    /\ up_error' = made.error
    /\ pc' = IF made.error = "none" THEN "up_done" ELSE "up_raised"

UpReport ==
    /\ pc = "up_updated"
    /\ InRun
    /\ \E can_write \in BOOLEAN : UpReported(report_run(dry_run, can_write))
    /\ UNCHANGED <<dry_run, tools_data, tool_index, stats>>
    /\ UNCHANGED <<validatorState, outsideUpdater>>

\* The except clause of run(): the error is logged and raised again.
UpRaise ==
    /\ pc = "up_raised"
    /\ InRun
    /\ pc' = "up_failed"
    /\ UNCHANGED upVars
    /\ UNCHANGED <<validatorState, outsideUpdater>>

UpNext ==
    \/ UpRun
    \/ UpUpdateTools
    \/ UpProcessTool
    \/ UpReturn
    \/ UpReport
    \/ UpRaise

SpecUpdater == Init /\ [][UpNext]_vars

\* ------------------------------------------------- the drawing of a description

\* _generate_image_for_scene draws the description of a scene.
DrawDescription ==
    /\ pc = "start"
    /\ \E d \in Descriptions :
          /\ scene_description' = d
          /\ drawn_lines' = wrap_description(d)
    /\ pc' = "drawn"
    /\ UNCHANGED <<validatorState, cliVars, reportVars, sbVars, upVars>>

DrawNext == DrawDescription

SpecDraw == Init /\ [][DrawNext]_vars

\* ------------------------------------------------------------------ claims

\* validate_content has returned a ValidationResult.
Returned == pc = "returned"

\* The issues of the returned result whose severity is the string sev.
WithSeverity(sev) ==
    {i \in 1..Len(result.issues) : result.issues[i].severity = PyStr(sev)}

\* C1: in every returned result, valid is false if and only if some issue has
\* severity "high"; issues of any other severity do not affect valid.
C1_ValidIffNoHigh == Returned => (result.valid <=> WithSeverity("high") = {})

\* A run on non-empty content whose result is invalid and also holds a medium
\* issue, and one whose severity is none of the three.
C1_Witness ==
    /\ Returned /\ content # <<>> /\ ~result.valid
    /\ WithSeverity("medium") # {}
    /\ WithSeverity("critical") # {}

\* C2: zero-length content gives valid = false and exactly one issue,
\* empty_content of severity high, and no stage and no external call is made,
\* with or without a model; content that is not zero-length, white space
\* included, goes through the stages and is not given the empty-content result.
C2_EmptyShortCircuits ==
    Returned =>
        /\ content = <<>> =>
              /\ ~result.valid
              /\ Len(result.issues) = 1
              /\ result.issues[1].issue_type = PyStr("empty_content")
              /\ result.issues[1].severity = PyStr("high")
              /\ calls = <<>>
        /\ content # <<>> =>
              /\ Len(calls) >= 3
              /\ calls[1] = "_validate_scene_structure"
              /\ result.summary # "Validation failed: Empty script content"
              /\ \A i \in 1..Len(result.issues) :
                    result.issues[i].issue_type # PyStr("empty_content")

\* Empty content given to a validator that has a model.
C2_Witness == Returned /\ content = <<>> /\ gemini_model

\* A scene-header prefix starts at index i of c.
HeaderAt(c, i) == i + 3 <= Len(c) /\ SubSeq(c, i, i + 3) \in {INT, EXT}

\* Some line of c, white space at its start aside, starts with INT. or EXT.:
\* a prefix at i with only white space between i and the line break before it.
HasHeaderLine(c) ==
    \E i \in 1..Len(c) :
        /\ HeaderAt(c, i)
        /\ \A j \in 1..(i - 1) :
              IsSpace(c[j]) \/ \E k \in j..(i - 1) : c[k] = Ch("\n")

\* The missing_scene_headers issues returned by _validate_scene_structure.
MissingHeaderIssues ==
    {i \in 1..Len(stages.scene) :
        stages.scene[i].issue_type = PyStr("missing_scene_headers")}

\* C3: for non-empty content of a screenplay type, _validate_scene_structure
\* returns exactly one missing_scene_headers issue, of severity medium, when no
\* line starts (after trimming) with INT. or EXT., and none when one does; for
\* any other type it returns none.  What it returns is in the result.
C3_SceneHeaderRule ==
    (Returned /\ content # <<>>) =>
        /\ (file_type \in {".fdx", ".fountain"} /\ ~HasHeaderLine(content)) =>
              /\ Cardinality(MissingHeaderIssues) = 1
              /\ \A i \in MissingHeaderIssues : stages.scene[i].severity = PyStr("medium")
        /\ (file_type \in {".fdx", ".fountain"} /\ HasHeaderLine(content)) =>
              MissingHeaderIssues = {}
        /\ file_type \notin {".fdx", ".fountain"} => MissingHeaderIssues = {}
        /\ Len(result.issues) >= Len(stages.scene)
        /\ SubSeq(result.issues, 1, Len(stages.scene)) = stages.scene

\* A screenplay whose only scene header is not at the start of the content.
C3_Witness ==
    /\ Returned /\ file_type = ".fdx"
    /\ HasHeaderLine(content) /\ ~HeaderAt(content, 1)
    /\ MissingHeaderIssues = {}

\* The number of issues of the returned result whose severity is sev.
Count(sev) == Cardinality(WithSeverity(sev))

\* The counts of the returned result's issues, as the summary words them.
CountsSummary ==
    "Found " \o ToString(Len(result.issues)) \o " issues: " \o ToString(Count("high"))
    \o " high, " \o ToString(Count("medium")) \o " medium, " \o ToString(Count("low"))
    \o " low severity."

\* C4 as stated: the summary of every returned result restates the counts of
\* its issues by severity, on the empty-content and the no-issue path too.
C4_SummaryAlwaysCounts == Returned => result.summary = CountsSummary

\* C4 amended: the summary restates the counts when the content is not empty
\* and at least one issue was found (one medium issue gives "Found 1 issues:
\* 0 high, 1 medium, 0 low severity."); the empty-content result and the result
\* without issues carry a fixed sentence without counts.
C4_SummaryCounts ==
    Returned =>
        /\ (content # <<>> /\ result.issues # <<>>) => result.summary = CountsSummary
        /\ (content # <<>> /\ Len(result.issues) = 1 /\ WithSeverity("medium") = {1}) =>
              result.summary = "Found 1 issues: 0 high, 1 medium, 0 low severity."
        /\ (content # <<>> /\ result.issues = <<>>) =>
              result.summary = "No issues found in the script."
        /\ content = <<>> => result.summary = "Validation failed: Empty script content"

\* A result with issues of all three severities.
C4_Witness ==
    /\ Returned /\ content # <<>>
    /\ WithSeverity("high") # {} /\ WithSeverity("medium") # {} /\ WithSeverity("low") # {}
    /\ result.summary = "Found 3 issues: 1 high, 1 medium, 1 low severity."

\* The stage or external call named was made in this run.
Called(name) == \E i \in 1..Len(calls) : calls[i] = name

\* The extracted text is a JSON text: one Doc and white space only around it.
PayloadDocs == {i \in 1..Len(json_str) : json_str[i][1] = "json"}

PayloadIsJson ==
    /\ Cardinality(PayloadDocs) = 1
    /\ \A i \in 1..Len(json_str) : i \in PayloadDocs \/ IsSpace(json_str[i])

\* The value the extracted JSON text serialises.
PayloadValue == json_str[CHOOSE i \in PayloadDocs : TRUE][2]

\* The list of records of a parsed value: the value itself, or its "issues".
HoldsList(v) ==
    \/ TypeOf(v) = "list"
    \/ /\ TypeOf(v) = "dict" /\ "issues" \in DOMAIN ValueOf(v)
       /\ TypeOf(ValueOf(v)["issues"]) = "list"

ListOf(v) == IF TypeOf(v) = "list" THEN ValueOf(v) ELSE ValueOf(ValueOf(v)["issues"])

\* Converting the parsed value fails: its "issues" is no list, or an element of
\* the list is not an object.
ConversionFails(v) ==
    \/ /\ TypeOf(v) = "dict" /\ "issues" \in DOMAIN ValueOf(v)
       /\ TypeOf(ValueOf(v)["issues"]) # "list"
    \/ /\ HoldsList(v)
       /\ \E i \in 1..Len(ListOf(v)) : TypeOf(ListOf(v)[i]) # "dict"

\* The extractor ran and the call, the extraction, the parse or the conversion
\* failed.
ExtractorFailed ==
    /\ Called("generate_content")
    /\ \/ service.kind # "text"
       \/ ~PayloadIsJson
       \/ ConversionFails(PayloadValue)

SyntheticKinds == {PyStr("gemini_analysis_error"), PyStr("gemini_parsing_error")}

\* C5 as stated: whenever the generation call, the extraction, the parse or
\* the conversion of the records fails, _analyze_with_gemini returns exactly
\* one issue, a low-severity gemini_analysis_error or gemini_parsing_error.
C5_FailureGivesOneIssue ==
    (Returned /\ ExtractorFailed) =>
        /\ Len(stages.gemini) = 1
        /\ stages.gemini[1].severity = PyStr("low")
        /\ stages.gemini[1].issue_type \in SyntheticKinds

\* The rule-based issues of the run.
RuleIssues == stages.scene \o stages.continuity \o stages.character

\* C6: validate_content never ends by raising; for non-empty content the
\* rule-based issues are the start of the result's issues whatever the service
\* does; and when the extractor failed, the last issue is the synthetic one, of
\* severity low, and valid is decided by the issues before it.
C6_ExtractorNeverAborts ==
    /\ pc # "raised"
    /\ (Returned /\ content # <<>>) =>
          /\ Len(result.issues) >= Len(RuleIssues)
          /\ SubSeq(result.issues, 1, Len(RuleIssues)) = RuleIssues
          /\ ExtractorFailed =>
                LET n == Len(result.issues)
                IN /\ n > Len(RuleIssues)
                   /\ result.issues[n].severity = PyStr("low")
                   /\ result.issues[n].issue_type \in SyntheticKinds
                   /\ result.valid <=>
                         \A i \in 1..(n - 1) : result.issues[i].severity # PyStr("high")

\* The generation call raised on a screenplay without scene headers: the result
\* is valid and holds the rule-based issue and the synthetic one.
C6_Witness ==
    /\ Returned /\ service.kind = "generate_raises" /\ Called("generate_content")
    /\ stages.scene # <<>> /\ result.valid /\ Len(result.issues) = 2

\* A fence, and a fence tagged json, start at index i of t.
FenceAt(t, i) == i + 2 <= Len(t) /\ SubSeq(t, i, i + 2) = Fence
TagAt(t, i) == i + 6 <= Len(t) /\ SubSeq(t, i, i + 6) = Fence \o JsonTag

Least(S) == CHOOSE i \in S : \A j \in S : i <= j

\* The fences of t that start at index from or later.
FencesFrom(t, from) == {i \in from..Len(t) : FenceAt(t, i)}
Tags(t) == {i \in 1..Len(t) : TagAt(t, i)}

\* The payload by the stated precedence, by positions: after the first json
\* tag up to the next fence; else between the first two fences; else all of t.
LocatedPayload(t) ==
    IF Tags(t) # {} /\ FencesFrom(t, Least(Tags(t)) + 7) # {}
    THEN SubSeq(t, Least(Tags(t)) + 7, Least(FencesFrom(t, Least(Tags(t)) + 7)) - 1)
    ELSE IF FencesFrom(t, 1) # {} /\ FencesFrom(t, Least(FencesFrom(t, 1)) + 3) # {}
         THEN SubSeq(t, Least(FencesFrom(t, 1)) + 3,
                     Least(FencesFrom(t, Least(FencesFrom(t, 1)) + 3)) - 1)
         ELSE t

\* C7: the text handed to json.loads is the text between the first json tag
\* and the next fence when there is one, else the content of the first closed
\* fenced block, else the whole response; and when the json-tagged block holds
\* the one-record list with issue_type "x", exactly one issue is returned, of
\* kind "x".
C7_PayloadPrecedence ==
    (Returned /\ Called("json.loads")) =>
        /\ json_str = LocatedPayload(service.text)
        /\ (/\ Tags(service.text) # {}
            /\ FencesFrom(service.text, Least(Tags(service.text)) + 7) # {}
            /\ PayloadIsJson /\ PayloadValue = DocX) =>
              /\ Len(stages.gemini) = 1
              /\ stages.gemini[1].issue_type = PyStr("x")

\* A response whose first block is a plain one holding another JSON text, and
\* whose json-tagged block, further on, is the one used.
C7_Witness ==
    /\ Returned /\ Called("json.loads")
    /\ FenceAt(service.text, 1) /\ ~TagAt(service.text, 1)
    /\ Len(service.text) > 4 /\ service.text[4] = Doc(DocHigh)
    /\ json_str = <<Doc(DocX)>>
    /\ Len(stages.gemini) = 1 /\ stages.gemini[1].issue_type = PyStr("x")

\* The value of a record's field, or the default when the record lacks it.
FieldOr(rec, key, default) ==
    IF key \in DOMAIN ValueOf(rec) THEN ValueOf(rec)[key] ELSE default

\* The issue at index i of q is the record rec with the fixed defaults.
IssueMatches(q, i, rec) ==
    /\ q[i].issue_type = FieldOr(rec, "issue_type", PyStr("unknown"))
    /\ q[i].description = FieldOr(rec, "description", PyStr("No description provided"))
    /\ q[i].location = FieldOr(rec, "location", PyStr("unknown"))
    /\ q[i].severity = FieldOr(rec, "severity", PyStr("medium"))
    /\ q[i].suggestions = FieldOr(rec, "suggestions", PyList(<<>>))

\* The parsed payload is a list of objects, bare or under "issues".
PayloadIsRecordList ==
    /\ Called("json.loads") /\ PayloadIsJson
    /\ HoldsList(PayloadValue) /\ ~ConversionFails(PayloadValue)

\* C8: when the parsed payload is a list of records, at top level or under
\* "issues", the extractor returns one issue per record, in record order, each
\* field being the record's or, when the record lacks it, the fixed default.
C8_OneIssuePerRecord ==
    (Returned /\ PayloadIsRecordList) =>
        /\ Len(stages.gemini) = Len(ListOf(PayloadValue))
        /\ \A i \in 1..Len(stages.gemini) :
              IssueMatches(stages.gemini, i, ListOf(PayloadValue)[i])

\* Two records under "issues": one without any field, then one with all.
C8_Witness ==
    /\ Returned /\ PayloadIsRecordList /\ TypeOf(PayloadValue) = "dict"
    /\ Len(stages.gemini) = 2
    /\ DOMAIN ValueOf(ListOf(PayloadValue)[1]) = {}
    /\ Cardinality(DOMAIN ValueOf(ListOf(PayloadValue)[2])) = 5
    /\ stages.gemini[1].severity = PyStr("medium")

\* C9 as stated: every issue of every returned result has a severity among
\* high, medium and low.
C9_SeverityInRange ==
    Returned =>
        \A i \in 1..Len(result.issues) :
            result.issues[i].severity \in {PyStr("high"), PyStr("medium"), PyStr("low")}

\* C10: for non-empty content the stages run in the order scene structure,
\* continuity, character consistency, AI extractor, and the result's issues are
\* what they returned, joined in that order; the AI-derived issues keep the
\* order of the records they come from.
C10_IssueOrder ==
    (Returned /\ content # <<>>) =>
        /\ SubSeq(calls, 1, 3) = <<"_validate_scene_structure", "_validate_continuity",
                                   "_validate_character_consistency">>
        /\ Called("_analyze_with_gemini") => calls[4] = "_analyze_with_gemini"
        /\ Len(result.issues) = Len(RuleIssues) + Len(stages.gemini)
        /\ \A i \in 1..Len(RuleIssues) : result.issues[i] = RuleIssues[i]
        /\ \A i \in 1..Len(stages.gemini) :
              result.issues[Len(RuleIssues) + i] = stages.gemini[i]
        /\ PayloadIsRecordList =>
              \A i \in 1..Len(ListOf(PayloadValue)) :
                  IssueMatches(result.issues, Len(RuleIssues) + i, ListOf(PayloadValue)[i])

\* A rule-based issue followed by two different AI-derived issues.
C10_Witness ==
    /\ Returned /\ stages.scene # <<>> /\ Len(stages.gemini) = 2
    /\ stages.gemini[1] # stages.gemini[2]
    /\ result.issues[1].issue_type = PyStr("missing_scene_headers")

\* The constructor of the command-line run has returned.
Constructed == pc \in {"ready", "returned", "raised", "done"}

\* An API key is supplied by the configuration file or by the environment.
KeySupplied ==
    \/ "gemini_api_key" \in DOMAIN self_config
    \/ "GEMINI_API_KEY" \in DOMAIN environ

\* C11 as stated: the extractor runs during validate_content only when a client
\* is configured; a client is configured when an API key is supplied by the
\* configuration file or by the environment (the client library being
\* installed); and with no client, the result for non-empty content holds the
\* rule-based issues only and the external service is never called.
C11_ClientWhenKeySupplied ==
    Constructed =>
        /\ Called("_analyze_with_gemini") => gemini_model
        /\ (gemini_available /\ KeySupplied) => gemini_model
        /\ (~gemini_model /\ Returned /\ content # <<>>) =>
               /\ result.issues = RuleIssues
               /\ ~Called("generate_content")

\* The marker appended to a truncated content.
TruncatedMarker ==
    <<Ch("."), Ch("."), Ch("."), Ch("["), Ch("t"), Ch("r"), Ch("u"), Ch("n"), Ch("c"),
      Ch("a"), Ch("t"), Ch("e"), Ch("d"), Ch("]")>>

\* The first n characters of a are the first n characters of b.
SameStart(a, b, n) == Len(a) >= n /\ Len(b) >= n /\ SubSeq(a, 1, n) = SubSeq(b, 1, n)

\* C12 as stated: the content embedded in the text-analysis prompt never
\* exceeds 30,000 characters, whatever the length of the input, and content of
\* at most 30,000 characters is embedded unchanged; in the storyboard pipeline
\* the embedded script content never exceeds 50,000 characters.
C12_EmbeddedAtMostMax ==
    /\ pc = "analysis_prompt" =>
          /\ Len(prompt) <= 30000
          /\ Len(content) <= 30000 => prompt = content
    /\ pc = "parse_prompt" => Len(sb_prompt) <= 50000

\* C12, amended: content of at most 30,000 characters is embedded in the
\* text-analysis prompt unchanged; of longer content the first 30,000
\* characters are embedded, followed by the 14 characters of the marker
\* "...[truncated]", so that the embedded text is 30,014 characters long.  In
\* the storyboard pipeline the embedded script content is the first 50,000
\* characters of the script, the whole script when it is no longer.
C12_EmbeddedPrefix ==
    /\ pc = "analysis_prompt" =>
          /\ Len(content) <= 30000 => prompt = content
          /\ Len(content) > 30000 =>
                /\ Len(prompt) = 30000 + 14
                /\ SameStart(prompt, content, 30000)
                /\ SubSeq(prompt, 30001, Len(prompt)) = TruncatedMarker
    /\ pc = "parse_prompt" =>
          /\ Len(sb_prompt) <= 50000
          /\ SameStart(sb_prompt, script_content, Len(sb_prompt))
          /\ Len(script_content) <= 50000 => sb_prompt = script_content
          /\ Len(script_content) > 50000 => Len(sb_prompt) = 50000

\* A content longer than the limit has been embedded, truncated.
C12_Witness ==
    /\ pc = "analysis_prompt"
    /\ Len(content) > 30000
    /\ Len(prompt) < Len(content) + 14

\* get_report has been called directly and has returned or raised.
ReportCalled == pc \in {"reported", "raised", "reloaded"}

\* A fragment of the returned HTML report.
HasFragment(f) == \E i \in 1..Len(report.text) : report.text[i] = f

\* C13 as stated: get_report returns a report for the formats json and html;
\* for every other format value it fails with the unsupported-format error and
\* produces no output; and in the html form the status label is Valid exactly
\* when valid is true, Invalid otherwise.
C13_ReportOrUnsupported ==
    ReportCalled =>
        /\ format \in {Json, Html} => report.raised = "none"
        /\ format \notin {Json, Html} =>
              report.raised = "ValueError" /\ report.text = <<>>
        /\ (format = Html /\ report.raised = "none") =>
              /\ HasFragment("<h2 class=\"valid\">Status: Valid</h2>") <=> result.valid
              /\ HasFragment("<h2 class=\"invalid\">Status: Invalid</h2>") <=> ~result.valid

\* The dict and the issues list that json.loads gave for the report.
ReloadedDict == ValueOf(reloaded.value)
ReloadedIssues == ValueOf(ReloadedDict["issues"])

\* The severities a count is taken for: those of the result and of the reload.
SeveritiesSeen ==
    {result.issues[i].severity : i \in 1..Len(result.issues)}
    \cup {ValueOf(ReloadedIssues[i])["severity"] : i \in 1..Len(ReloadedIssues)}

\* C14: parsing the output of get_report('json') gives an object with the same
\* valid flag and the same summary, and an issues list of the same length and
\* order (each element carries the five fields of the issue at its place)
\* whose count of issues per severity equals that of the result.
C14_JsonRoundTrip ==
    pc = "reloaded" =>
        /\ ~reloaded.raised
        /\ TypeOf(reloaded.value) = "dict"
        /\ DOMAIN ReloadedDict = {"valid", "issues", "summary"}
        /\ ReloadedDict["valid"] = PyBool(result.valid)
        /\ ReloadedDict["summary"] = PyStr(result.summary)
        /\ TypeOf(ReloadedDict["issues"]) = "list"
        /\ Len(ReloadedIssues) = Len(result.issues)
        /\ \A i \in 1..Len(result.issues) :
              /\ TypeOf(ReloadedIssues[i]) = "dict"
              /\ DOMAIN ValueOf(ReloadedIssues[i])
                    = {"issue_type", "description", "location", "severity", "suggestions"}
              /\ ValueOf(ReloadedIssues[i])["issue_type"] = result.issues[i].issue_type
              /\ ValueOf(ReloadedIssues[i])["description"] = result.issues[i].description
              /\ ValueOf(ReloadedIssues[i])["location"] = result.issues[i].location
              /\ ValueOf(ReloadedIssues[i])["suggestions"] = result.issues[i].suggestions
        /\ \A sev \in SeveritiesSeen :
              Cardinality({i \in 1..Len(ReloadedIssues) :
                              ValueOf(ReloadedIssues[i])["severity"] = sev})
              = Cardinality({i \in 1..Len(result.issues) : result.issues[i].severity = sev})

\* A report of two issues of different severities, one with suggestions, has
\* been parsed back.
C14_Witness ==
    /\ pc = "reloaded"
    /\ Len(result.issues) = 2
    /\ result.issues[1].severity = PyStr("high")
    /\ result.issues[2].severity = PyStr("medium")
    /\ result.issues[2].suggestions # PyList(<<>>)
    /\ ~result.valid

\* The last component of the script path: what follows its last separator.
LastSeparator ==
    IF \E i \in 1..Len(args.file) : args.file[i] = Ch("/")
    THEN CHOOSE i \in 1..Len(args.file) :
            args.file[i] = Ch("/") /\ \A j \in (i + 1)..Len(args.file) : args.file[j] # Ch("/")
    ELSE 0

FileName == SubSeq(args.file, LastSeparator + 1, Len(args.file))

\* The dots of the file name that have a character other than a dot before them.
ExtensionDots ==
    {d \in 1..Len(FileName) :
        FileName[d] = Ch(".") /\ \E k \in 1..(d - 1) : FileName[k] # Ch(".")}

\* The file name's extension with its leading dot, lower-cased: from the last
\* dot on.  The generic default is the default type of validate_content.
ExtensionTag ==
    IF ExtensionDots = {} THEN ".txt"
    ELSE StrOf(Lower(SubSeq(FileName,
                            CHOOSE d \in ExtensionDots : \A e \in ExtensionDots : e <= d,
                            Len(FileName))))

\* C15 as stated: when the path does not exist validate_file fails with the
\* not-found error before anything is read or any rule is run, and the command
\* line then prints an Error message and exits with 1; otherwise the full text
\* of the file is validated with the path's extension, lower-cased and with its
\* leading dot, as type tag, and with the generic default tag when the path has
\* no extension.
C15_NotFoundOrTagged ==
    /\ (pc = "raised" /\ ~files.script.exists) =>
          error = "FileNotFoundError" /\ calls = <<>> /\ content = <<>>
    /\ (pc = "done" /\ ~files.script.exists) =>
          stdout = <<"Error: ", "FileNotFoundError">> /\ exit_code = "1" /\ calls = <<>>
    /\ (pc \in {"returned", "done"} /\ files.script.exists) =>
          /\ Called("open")
          /\ content = files.script.text
          /\ file_type = ExtensionTag

\* The generator was constructed, or its construction raised, and nothing ran
\* since.
SbConstructionOver == pc \in {"sb_ready", "sb_raised"} /\ scenes = <<>> /\ frames = <<>>

\* The config file read, or the environment, holds a non-empty API key.
SbKeySupplied ==
    \/ /\ sb_args.config # "none"
       /\ sb_files.config.exists
       /\ "gemini_api_key" \in DOMAIN sb_files.config.json
       /\ TypeOf(sb_files.config.json["gemini_api_key"]) = "str"
       /\ ValueOf(sb_files.config.json["gemini_api_key"]) # ""
    \/ /\ "GEMINI_API_KEY" \in DOMAIN sb_environ
       /\ ValueOf(sb_environ["GEMINI_API_KEY"]) # ""

\* C16: constructing the storyboard generator fails with a configuration error
\* (ValueError), before any script is read, any directory is created or any
\* external call is made, if and only if neither the configuration file nor the
\* GEMINI_API_KEY environment variable supplies a non-empty API key; when at
\* least one of them does, construction succeeds.
C16_ConfigErrorIffNoKey ==
    /\ pc = "sb_ready" => SbKeySupplied /\ sb_error = "none"
    /\ pc = "sb_raised" /\ sb_error = "ValueError" => ~SbKeySupplied /\ sb_effects = <<>>
    /\ SbConstructionOver /\ ~SbKeySupplied => pc = "sb_raised" /\ sb_error = "ValueError"

\* parse_script ran: the script exists and generation was attempted.
SbExtractionRan ==
    /\ pc \in {"sb_pdf", "sb_raised"}
    /\ sb_files.script.exists
    /\ <<"call", "generate_content">> \in {sb_effects[i] : i \in 1..Len(sb_effects)}

\* The response holds an opening bracket followed, somewhere, by a closing one.
SbHasArray ==
    \E i, j \in 1..Len(sb_service.text) :
        i < j /\ sb_service.text[i] = Ch("[") /\ sb_service.text[j] = Ch("]")

\* The text from the first opening bracket to the last closing one.
SbArrayText ==
    SubSeq(sb_service.text,
           CHOOSE i \in 1..Len(sb_service.text) :
               /\ sb_service.text[i] = Ch("[")
               /\ \A k \in 1..(i - 1) : sb_service.text[k] # Ch("["),
           CHOOSE j \in 1..Len(sb_service.text) :
               /\ sb_service.text[j] = Ch("]")
               /\ \A k \in (j + 1)..Len(sb_service.text) : sb_service.text[k] # Ch("]"))

\* The extraction stage failed: the call or the reading of its text raised, the
\* response holds no array, or the array does not parse.
SbExtractionFailed ==
    \/ sb_service.kind # "text"
    \/ ~SbHasArray
    \/ json_loads(SbArrayText).raised

\* parse_script raised.
SbParseRaised == pc = "sb_raised" /\ sb_error \in {"Exception", "FileNotFoundError"}

\* C19: when the scene-extraction stage fails (the generation call raises, the
\* response holds no JSON array, or the array does not parse), parse_script
\* raises nothing and returns the single default scene: scene_number "1",
\* description "Default scene", no characters.
C19_ParseFailureGivesDefaultScene ==
    SbExtractionRan =>
        /\ ~SbParseRaised
        /\ SbExtractionFailed =>
              /\ Len(scenes) = 1
              /\ TypeOf(scenes[1]) = "dict"
              /\ ValueOf(scenes[1])["scene_number"] = PyStr("1")
              /\ ValueOf(scenes[1])["description"] = PyStr("Default scene")
              /\ ValueOf(scenes[1])["characters"] = PyList(<<>>)

\* The process is over and generate_from_script had returned a storyboard: the
\* script was read, the service answered and every scene gave a frame.
SbGenerationSucceeded ==
    /\ pc \in {"sb_done", "sb_failed"}
    /\ sb_effects # <<>>
    /\ sb_files.script.exists
    /\ sb_service.kind # "generate_raises"
    /\ Len(frames) = Len(scenes)

IsExportCall(e) == e[1] = "call" /\ e[2] # "generate_content"

\* The exports called, in call order.
SbExportCalls == SelectSeq(sb_effects, IsExportCall)

\* The file name was written under the output directory.
SbWrote(name) ==
    <<"write", StrOf(Join(SbOutputDir, <<Ch(name)>>))>>
        \in {sb_effects[i] : i \in 1..Len(sb_effects)}

\* The frame images were exported: the frames directory exists and holds a copy
\* for each frame that has an image.
SbFramesExported ==
    /\ <<"makedirs", StrOf(Join(SbOutputDir, <<Ch("frames")>>))>>
          \in {sb_effects[i] : i \in 1..Len(sb_effects)}
    /\ Len(SelectSeq(sb_effects, LAMBDA e : e[1] = "copy"))
          = Len(SelectSeq(frames, LAMBDA f : f.image_path # PyNone))

\* C20: when the storyboard command line runs with --format all and generation
\* succeeded, it calls the PDF export, then the HTML export, then the frames
\* export, and all three complete: the PDF, the HTML document and the frame
\* images are written under the output directory; with a single format only
\* that export is called.
C20_AllFormatsExported ==
    SbGenerationSucceeded =>
        /\ sb_args.format = "all" =>
              /\ SbExportCalls = <<<<"call", "export_pdf">>, <<"call", "export_html">>,
                                   <<"call", "export_frames">>>>
              /\ SbWrote(SbTitle \o "_storyboard.pdf")
              /\ SbWrote(SbTitle \o "_storyboard.html")
              /\ SbFramesExported
              /\ sb_exit = "0"
        /\ sb_args.format # "all" =>
              SbExportCalls = <<<<"call", "export_" \o sb_args.format>>>>

\* The kinds of entry e of up_effects that occur.
UpHas(e) == e \in {up_effects[i] : i \in 1..Len(up_effects)}

UpKinds == {up_effects[i][1] : i \in 1..Len(up_effects)}

\* C17: when the updater runs with dry_run set, no side-effecting operation is
\* performed at any point of the run: no update is made (every operation called
\* reports false, so docs_updated, tools_updated and code_updated stay 0),
\* update_last_updated is never called, and run() writes no file.
C17_DryRunNoSideEffects ==
    dry_run =>
        /\ "do" \notin UpKinds
        /\ stats.docs_updated = 0 /\ stats.tools_updated = 0 /\ stats.code_updated = 0
        /\ ~UpHas(<<"call", "update_last_updated">>)
        /\ "write" \notin UpKinds

\* update_tools is over: it returned or an exception left it.
UpdateToolsOver ==
    \/ pc \in {"up_updated", "up_done", "up_failed"}
    \/ pc = "up_raised" /\ up_error = "KeyError"

\* The records that cannot be processed: those without a name.
UpFailing == {i \in 1..Len(tools_data) : "Tool Name" \notin DOMAIN tools_data[i]}

\* C18: a failure while processing one tool record, such as a record without
\* "Tool Name", is swallowed: update_tools raises nothing, errors counts one for
\* each failing record, every record is processed in turn, and the statistics
\* returned have tools_processed equal to the number of records and errors,
\* docs_updated, tools_updated and code_updated at most tools_processed.
C18_RecordFailureSwallowed ==
    UpdateToolsOver =>
        /\ up_error # "KeyError"
        /\ tool_index = Len(tools_data)
        /\ stats.errors = Cardinality(UpFailing)
        /\ stats.tools_processed = Len(tools_data)
        /\ stats.errors <= stats.tools_processed
        /\ stats.docs_updated <= stats.tools_processed
        /\ stats.tools_updated <= stats.tools_processed
        /\ stats.code_updated <= stats.tools_processed

\* export_pdf ran to its end: the PDF is written.
PdfExported ==
    /\ \E i \in 1..Len(sb_effects) : sb_effects[i] = <<"call", "export_pdf">>
    /\ SbWrote(SbTitle \o "_storyboard.pdf")

IsPdfOp(e) == e[1] \in {"showPage", "drawString", "drawText"}

\* What export_pdf put on the canvas, in order.
PdfOps == SelectSeq(sb_effects, IsPdfOp)

IsPageBreak(e) == e[1] = "showPage"

IsFrameText(e) == e[1] = "drawText"

\* The place in PdfOps at which the text of frame k is drawn.
DrawnAt(k) == CHOOSE i \in 1..Len(PdfOps) : PdfOps[i] = <<"drawText", ToString(k)>>

\* The page frame k is drawn on: one more than the page breaks before it.
PageOf(k) == 1 + Len(SelectSeq(SubSeq(PdfOps, 1, DrawnAt(k)), IsPageBreak))

\* C21: export_pdf lays the frames out three per page: a page break is issued
\* exactly before each frame whose zero-based index k has k > 0 and k mod 3 = 0,
\* frame k is drawn on page floor(k/3) + 1, no page holds more than three
\* frames, the frames appear in list order, and the loop issues floor((n-1)/3)
\* page breaks for n >= 1 frames and none for n = 0.
C21_ThreeFramesPerPage ==
    PdfExported =>
        /\ SelectSeq(PdfOps, IsFrameText)
              = [k \in 1..Len(frames) |-> <<"drawText", ToString(k - 1)>>]
        /\ \A k \in 0..(Len(frames) - 1) :
              /\ (\E i \in 1..Len(PdfOps) : PdfOps[i] = <<"showPage", ToString(k)>>)
                    <=> (k > 0 /\ k % 3 = 0)
              /\ PageOf(k) = (k \div 3) + 1
        /\ \A i \in 1..(Len(PdfOps) - 1) :
              IsPageBreak(PdfOps[i]) => PdfOps[i + 1] = <<"drawString", PdfOps[i][2]>>
        /\ \A p \in 1..(Len(frames) + 1) :
              Cardinality({k \in 0..(Len(frames) - 1) : PageOf(k) = p}) <= 3
        /\ Len(SelectSeq(PdfOps, IsPageBreak))
              = IF Len(frames) = 0 THEN 0 ELSE (Len(frames) - 1) \div 3

\* A storyboard of seven frames was exported on three pages.
C21_Witness ==
    /\ PdfExported
    /\ Len(frames) = 7
    /\ Len(SelectSeq(PdfOps, IsPageBreak)) = 2
    /\ PageOf(6) = 3

Blank == Ch(" ")

\* A description was drawn.
DescriptionDrawn == pc = "drawn"

\* The places of the description at which a word starts.
WordStarts ==
    {i \in 1..Len(scene_description) :
        scene_description[i] # Blank /\ (i = 1 \/ scene_description[i - 1] = Blank)}

\* The word that starts at place i: the characters up to the next blank.
WordFrom(i) ==
    SubSeq(scene_description, i,
           CHOOSE j \in i..Len(scene_description) :
               /\ j = Len(scene_description) \/ scene_description[j + 1] = Blank
               /\ \A k \in i..j : scene_description[k] # Blank)

\* The words of the description, in order.
DescriptionWords ==
    [n \in 1..Cardinality(WordStarts) |->
        WordFrom(CHOOSE i \in WordStarts : Cardinality({j \in WordStarts : j < i}) = n - 1)]

\* The first word of a drawn line that is not empty.
FirstWord(drawn) ==
    SubSeq(drawn, 1, (CHOOSE i \in 1..Len(drawn) :
                          drawn[i] = Blank /\ \A k \in 1..(i - 1) : drawn[k] # Blank) - 1)

\* The words of the drawn lines, in order, are the words of the description,
\* each once.
WordsKept ==
    Flatten(drawn_lines)
        = Flatten([n \in 1..Len(DescriptionWords) |-> DescriptionWords[n] \o <<Blank>>])

\* A line after the first starts with the word that did not fit the line before
\* it; a line of several words fits the budget, and so does the first word
\* when the first line holds it.
GreedyFill ==
    /\ \A i \in 2..Len(drawn_lines) :
          /\ drawn_lines[i] # <<>>
          /\ textlength(drawn_lines[i - 1] \o FirstWord(drawn_lines[i]) \o <<Blank>>) > 760
    /\ \A i \in 1..Len(drawn_lines) :
          Glyphs(drawn_lines[i], Blank) > 1 => textlength(drawn_lines[i]) <= 760
    /\ drawn_lines[1] # <<>> => textlength(FirstWord(drawn_lines[1]) \o <<Blank>>) <= 760

NoEmptyLineBeforeLast == \A i \in 1..(Len(drawn_lines) - 1) : drawn_lines[i] # <<>>

\* C22: the word-wrap of the description is a greedy line-fill against the
\* budget of 760 pixels: the drawn lines, in order, hold every word once in the
\* original order; a word starts a new line exactly when appending it would
\* make the current line wider than 760; every drawn line of more than one word
\* is at most 760 wide; and no empty line is drawn before the last line.
C22_GreedyWordWrap ==
    DescriptionDrawn => WordsKept /\ GreedyFill /\ NoEmptyLineBeforeLast

\* parse_script returned its scenes and the loop over them is over.
SbScenesParsed ==
    /\ pc \in {"sb_pdf", "sb_raised"}
    /\ SbExtractionRan
    /\ ~SbParseRaised
    /\ SbExportCalls = <<>>

\* The number of a scene as its frame carries it.
SceneNumberOf(scene) ==
    IF TypeOf(scene) = "dict" /\ "scene_number" \in DOMAIN ValueOf(scene)
    THEN ValueOf(scene)["scene_number"] ELSE PyStr("")

\* Every scene has its frame, in scene order.
OneFramePerScene ==
    /\ sb_error = "none"
    /\ Len(frames) = Len(scenes)
    /\ \A i \in 1..Len(scenes) : frames[i].scene_number = SceneNumberOf(scenes[i])

\* Where no image can be saved, or none is asked for, the frames have none.
FramesWithoutImage ==
    ~sb_files.writable => \A i \in 1..Len(frames) : frames[i].image_path = PyNone

\* No two different scenes have their image in the same file.
DistinctImageFiles ==
    \A i, j \in 1..Len(frames) :
        /\ i < j
        /\ scenes[i] # scenes[j]
        /\ frames[i].image_path # PyNone
        /\ frames[j].image_path # PyNone
        => frames[i].image_path # frames[j].image_path

\* C23: generate_from_script builds exactly one frame for each parsed scene, in
\* scene order; a scene whose image generation fails still gets its frame, with
\* no image path, and the scenes after it are still processed; and different
\* scenes get different image files, so that no image is overwritten by that
\* of a later scene.
C23_OneFramePerScene ==
    SbScenesParsed => OneFramePerScene /\ FramesWithoutImage /\ DistinctImageFiles

====
